---- MODULE Spec2Model ----
(***************************************************************************)
(* Model of the elastic guest-memory devices of firecracker-faascale: the  *)
(* virtio balloon (src/vmm/src/devices/virtio/balloon/device.rs) and the   *)
(* faascale-mem device (src/vmm/src/devices/virtio/faascale_mem/).         *)
(*                                                                         *)
(* Every handler of the devices is one action: the whole handler runs to   *)
(* completion (the event loop is single threaded).  The variable `last`    *)
(* records, for the handler that ran last, its name, argument, result, the *)
(* ordered list of its observable effects and the device state it started  *)
(* from.                                                                   *)
(***************************************************************************)
EXTENDS Integers, Sequences, FiniteSets, TLC

(***************************************************************************)
(* Bounds of the model.                                                    *)
(***************************************************************************)
\* descriptor-table entries a queue has in the model (QUEUE_SIZE is 256)
MaxDesc == 2
\* largest number of stat entries in one stats descriptor
MaxStatEntries == 2
\* largest statistics polling interval (seconds) the control plane asks for
MaxInterval == 2
\* chains the driver keeps available on the page queues of a device at a time
MaxChains == 2
\* pages of the guest memory region
NumPages == 1
\* MAX_PAGES_IN_DESC (256), MAX_PAGE_COMPACT_BUFFER (2048) and
\* MAX_BLOCKS_IN_DESC (128), scaled down
MAX_PAGES_IN_DESC == 2
MAX_PAGE_COMPACT_BUFFER == 3
MAX_BLOCKS_IN_DESC == 2
\* compact_page_frame_numbers on its own is applied to buffers of at most
\* MaxPfnBuffer frame numbers out of 0 .. MaxPfn
MaxPfn == 3
MaxPfnBuffer == 4
\* statistics values are 0 .. MaxStatVal
MaxStatVal == 1
\* update_with_stat is applied to snapshots with at most MaxStatFields
\* fields set
MaxStatFields == 1

(***************************************************************************)
(* Program constants.                                                      *)
(***************************************************************************)
SIZE_OF_U32 == 4
SIZE_OF_STAT == 10
SIZE_OF_BLOCK_INFO == 8
CONFIG_SPACE_SIZE == 8
NUM_QUEUES == 3
INFLATE_INDEX == 0
DEFLATE_INDEX == 1
STATS_INDEX == 2
POPULATE_INDEX == 0
DEPOPULATE_INDEX == 1
FAASCALE_STATS_INDEX == 2
VIRTIO_F_VERSION_1 == 32
VIRTIO_BALLOON_F_STATS_VQ == 1
VIRTIO_BALLOON_F_DEFLATE_ON_OOM == 2
VIRTIO_FAASCALE_MEM_F_STATS_VQ == 1
\* the statistics tags VIRTIO_BALLOON_S_* / VIRTIO_FAASCALE_MEM_S_*
VIRTIO_S_SWAP_IN == 0
VIRTIO_S_SWAP_OUT == 1
VIRTIO_S_MAJFLT == 2
VIRTIO_S_MINFLT == 3
VIRTIO_S_MEMFREE == 4
VIRTIO_S_MEMTOT == 5
VIRTIO_S_AVAIL == 6
VIRTIO_S_CACHES == 7
VIRTIO_S_HTLB_PGALLOC == 8
VIRTIO_S_HTLB_PGFAIL == 9
\* VIRTIO_BALLOON_PFN_SHIFT = VIRTIO_FAASCALE_MEM_PFN_SHIFT = 12: bytes of a frame
PAGE_SIZE == 4096
\* VIRTIO_FAASCALE_MEM_PFN_SHIFT, in bits
VIRTIO_FAASCALE_MEM_PFN_SHIFT == 12

(***************************************************************************)
(* Option<T>: None is the empty tuple, Some(x) the one-element tuple.      *)
(***************************************************************************)
None == << >>
Some(x) == << x >>

(***************************************************************************)
(* u32 values of the config space are kept as their four little-endian     *)
(* bytes, the form read_config / write_config expose.                      *)
(***************************************************************************)
\* the little-endian bytes of n, for 0 <= n < 2^31
U32Bytes(n) ==
    << n % 256, (n \div 256) % 256, (n \div 65536) % 256, (n \div 16777216) % 256 >>

\* the amount taken as a page count, without the multiplication
mib_to_pages_unscaled(amount_mib) ==
    [ok |-> TRUE, pages |-> U32Bytes(amount_mib)]

\* the multiplication wrapping round at 2^32
mib_to_pages_wrapping(amount_mib) ==
    LET b == U32Bytes(amount_mib)
    IN  [ok |-> TRUE, pages |-> << 0, b[1], b[2], b[3] >>]

\* mib_to_pages: amount_mib.checked_mul(MIB_TO_4K_PAGES), MIB_TO_4K_PAGES = 256.
\* Multiplying a u32 by 256 moves every byte one place up; the product
\* overflows u32 exactly when the top byte of amount_mib is not zero.
mib_to_pages(amount_mib) ==
    LET b == U32Bytes(amount_mib)
    IN  IF b[4] # 0
        THEN [ok |-> FALSE, pages |-> << 0, 0, 0, 0 >>]
        ELSE [ok |-> TRUE, pages |-> << 0, b[1], b[2], b[3] >>]

(***************************************************************************)
(* The observable effects of a handler, in the order they happen.          *)
(***************************************************************************)
Ev(e, a, b, r) == [e |-> e, a |-> a, b |-> b, r |-> r]

(***************************************************************************)
(* State.                                                                  *)
(***************************************************************************)
VARIABLES
    kind,                      \* "balloon" or "faascale_mem"
    avail_features,            \* set of offered feature bits
    acked_features,            \* set of feature bits the driver acknowledged
    config_space,              \* 8 bytes: num_pages, actual_pages (LE)
    queues,                    \* Vec<Queue>: 3 queues, 2 when stats are off
    queue_evts,                \* per queue notifier: TRUE = a kick is pending
    device_state,              \* "Inactive" or "Activated"
    irq_status,                \* pending interrupt types
    restored,
    pre_alloc_mem,
    pre_tdp_fault,
    stats_polling_interval_s,
    stats_timer,               \* period of the armed timer, 0 = not armed
    stats_desc_index,          \* Option<u16>
    latest_stats,              \* tag -> Option<u64>
    mem,                       \* guest memory: content of every mapped page
    mutex,                     \* Arc<Mutex<device>>: TRUE = locked
    guard,                     \* the threads that hold a MutexGuard of the device
    event_ops,                 \* the event sources registered with the event manager
    running,                   \* the call of process_inflate_queue in progress: its
                               \* position and its local variables
    last                       \* the handler that ran last

vars == << kind, avail_features, acked_features, config_space, queues, queue_evts, device_state,
           irq_status, restored, pre_alloc_mem, pre_tdp_fault,
           stats_polling_interval_s, stats_timer, stats_desc_index,
           latest_stats, mem, mutex, guard, event_ops, running, last >>


(***************************************************************************)
(* The virtio queue (external collaborator).  avail holds the descriptor   *)
(* chains the driver made available and the device has not popped, used    *)
(* the indices the device returned and the driver has not collected, and   *)
(* held the indices the device popped and has not returned.                *)
(* A descriptor chain head is [index, is_write_only, len, data, readable]: *)
(* data are the entries found in guest memory at addr, addr + size, ...,   *)
(* and only the first `readable` of them can be read (a later one makes    *)
(* checked_add overflow or lies outside guest memory).                     *)
(***************************************************************************)
NewQueue == [avail |-> << >>, used |-> << >>, held |-> {}]

\* Queue::pop: the caller has checked that avail is not empty
pop(q) ==
    [q EXCEPT !.avail = Tail(q.avail), !.held = q.held \cup {Head(q.avail).index}]

\* Queue::undo_pop: the chain popped last is available again
undo_pop(q, head) ==
    [q EXCEPT !.avail = << head >> \o q.avail, !.held = q.held \ {head.index}]

\* Queue::add_used(mem, index, 0)
add_used(q, index) ==
    [q EXCEPT !.used = Append(q.used, index), !.held = q.held \ {index}]

\* the descriptor indices the driver may use for a new chain
FreeIndices(q) ==
    { i \in 0 .. MaxDesc - 1 :
        /\ i \notin q.held
        /\ \A k \in 1 .. Len(q.avail) : q.avail[k].index # i
        /\ \A k \in 1 .. Len(q.used) : q.used[k] # i }

\* the index the driver takes for a new chain on a page queue: the lowest
\* free one
NextIndex(q) == CHOOSE i \in FreeIndices(q) : \A j \in FreeIndices(q) : i <= j

\* number of strides of `size` bytes in (0..len).step_by(size)
Strides(len, size) == (len + size - 1) \div size

(***************************************************************************)
(* Statistics model.                                                       *)
(***************************************************************************)
StatTags == 0 .. VIRTIO_S_HTLB_PGFAIL

\* BalloonStats::default / FaascaleMemStats::default: the fields the guest
\* reports, all None
DefaultStats ==
    [swap_in |-> None, swap_out |-> None, major_faults |-> None,
     minor_faults |-> None, free_memory |-> None, total_memory |-> None,
     available_memory |-> None, disk_caches |-> None,
     hugetlb_allocations |-> None, hugetlb_failures |-> None]

\* BalloonStats::default(): the page and MiB counts latest_stats() fills in
\* (u32 values as their little-endian bytes) and the guest-supplied fields
BalloonDefaultStats ==
    [target_pages |-> << 0, 0, 0, 0 >>, actual_pages |-> << 0, 0, 0, 0 >>,
     target_mib |-> << 0, 0, 0, 0 >>, actual_mib |-> << 0, 0, 0, 0 >>]
      @@ DefaultStats

\* update_with_stat that stores the value of a cache statistic in
\* available_memory
update_with_stat_caches_as_avail(stats, stat) ==
    LET val == Some(stat[2])
        Ok(s) == [ok |-> TRUE, stats |-> s]
    IN  CASE stat[1] = VIRTIO_S_SWAP_IN -> Ok([stats EXCEPT !.swap_in = val])
          [] stat[1] = VIRTIO_S_SWAP_OUT -> Ok([stats EXCEPT !.swap_out = val])
          [] stat[1] = VIRTIO_S_MAJFLT -> Ok([stats EXCEPT !.major_faults = val])
          [] stat[1] = VIRTIO_S_MINFLT -> Ok([stats EXCEPT !.minor_faults = val])
          [] stat[1] = VIRTIO_S_MEMFREE -> Ok([stats EXCEPT !.free_memory = val])
          [] stat[1] = VIRTIO_S_MEMTOT -> Ok([stats EXCEPT !.total_memory = val])
          [] stat[1] = VIRTIO_S_AVAIL -> Ok([stats EXCEPT !.available_memory = val])
          [] stat[1] = VIRTIO_S_CACHES -> Ok([stats EXCEPT !.available_memory = val])
          [] stat[1] = VIRTIO_S_HTLB_PGALLOC ->
               Ok([stats EXCEPT !.hugetlb_allocations = val])
          [] stat[1] = VIRTIO_S_HTLB_PGFAIL ->
               Ok([stats EXCEPT !.hugetlb_failures = val])
          [] OTHER -> [ok |-> FALSE, stats |-> stats]

\* update_with_stat: `match stat.tag`, the field of the tag becomes
\* Some(stat.val); any other tag is MalformedPayload and changes nothing.
\* A stat is << tag, val >>.
update_with_stat(stats, stat) ==
    LET val == Some(stat[2])
        Ok(s) == [ok |-> TRUE, stats |-> s]
    IN  CASE stat[1] = VIRTIO_S_SWAP_IN -> Ok([stats EXCEPT !.swap_in = val])
          [] stat[1] = VIRTIO_S_SWAP_OUT -> Ok([stats EXCEPT !.swap_out = val])
          [] stat[1] = VIRTIO_S_MAJFLT -> Ok([stats EXCEPT !.major_faults = val])
          [] stat[1] = VIRTIO_S_MINFLT -> Ok([stats EXCEPT !.minor_faults = val])
          [] stat[1] = VIRTIO_S_MEMFREE -> Ok([stats EXCEPT !.free_memory = val])
          [] stat[1] = VIRTIO_S_MEMTOT -> Ok([stats EXCEPT !.total_memory = val])
          [] stat[1] = VIRTIO_S_AVAIL -> Ok([stats EXCEPT !.available_memory = val])
          [] stat[1] = VIRTIO_S_CACHES -> Ok([stats EXCEPT !.disk_caches = val])
          [] stat[1] = VIRTIO_S_HTLB_PGALLOC ->
               Ok([stats EXCEPT !.hugetlb_allocations = val])
          [] stat[1] = VIRTIO_S_HTLB_PGFAIL ->
               Ok([stats EXCEPT !.hugetlb_failures = val])
          [] OTHER -> [ok |-> FALSE, stats |-> stats]

(***************************************************************************)
(* Device construction: Balloon::new / FaascaleMem::new.                   *)
(***************************************************************************)
\* queues.remove(STATS_INDEX) when statistics are disabled
NewQueues(interval) ==
    IF interval = 0
    THEN << NewQueue, NewQueue >>
    ELSE << NewQueue, NewQueue, NewQueue >>

NoPre ==
    [queues |-> << >>, config_space |-> << >>, device_state |-> "",
     irq_status |-> {}, stats_polling_interval_s |-> 0, stats_timer |-> 0,
     stats_desc_index |-> None, latest_stats |-> DefaultStats, mem |-> << >>,
     queue_evts |-> << >>, avail_features |-> {}, acked_features |-> {}]

Pre ==
    [queues |-> queues, config_space |-> config_space,
     device_state |-> device_state, irq_status |-> irq_status,
     stats_polling_interval_s |-> stats_polling_interval_s,
     stats_timer |-> stats_timer, stats_desc_index |-> stats_desc_index,
     latest_stats |-> latest_stats, mem |-> mem, queue_evts |-> queue_evts,
     avail_features |-> avail_features, acked_features |-> acked_features]

\* no handler ran since the driver or the guest acted last
Idle ==
    [op |-> "none", arg |-> 0, res |-> "", log |-> << >>, pre |-> NoPre,
     host_fail |-> ""]

\* no call of process_inflate_queue is in progress
NotRunning ==
    [pc |-> "idle", pfn_buffer |-> << >>, page_ranges |-> << >>,
     needs_interrupt |-> FALSE, valid_descs_found |-> FALSE, log |-> << >>,
     res |-> "Ok", pre |-> NoPre]

\* guest memory: one region of NumPages pages at guest address 0; the
\* frames from NumPages on belong to no region
Regions == { [start_addr |-> 0, len |-> NumPages * PAGE_SIZE] }
Frames == 0 .. NumPages
MappedFrames == 0 .. NumPages - 1

BalloonNew(amount_mib, deflate_on_oom, interval, is_restored) ==
    /\ mib_to_pages(amount_mib).ok
    /\ mutex = FALSE
    /\ guard = {}
    /\ event_ops = {}
    /\ running = NotRunning
    /\ kind = "balloon"
    /\ avail_features =
         {VIRTIO_F_VERSION_1}
           \cup (IF deflate_on_oom THEN {VIRTIO_BALLOON_F_DEFLATE_ON_OOM} ELSE {})
           \cup (IF interval > 0 THEN {VIRTIO_BALLOON_F_STATS_VQ} ELSE {})
    /\ acked_features = {}
    /\ config_space = mib_to_pages(amount_mib).pages \o << 0, 0, 0, 0 >>
    /\ queues = NewQueues(interval)
    /\ queue_evts = << FALSE, FALSE, FALSE >>
    /\ device_state = "Inactive"
    /\ irq_status = {}
    /\ restored = is_restored
    /\ pre_alloc_mem = FALSE
    /\ pre_tdp_fault = FALSE
    /\ stats_polling_interval_s = interval
    /\ stats_timer = 0
    /\ stats_desc_index = None
    /\ latest_stats = BalloonDefaultStats

FaascaleMemNew(interval, is_restored, pre_alloc, pre_tdp) ==
    /\ mutex = FALSE
    /\ guard = {}
    /\ event_ops = {}
    /\ running = NotRunning
    /\ kind = "faascale_mem"
    /\ avail_features =
         {VIRTIO_F_VERSION_1}
           \cup (IF interval > 0 THEN {VIRTIO_FAASCALE_MEM_F_STATS_VQ} ELSE {})
    /\ acked_features = {}
    /\ config_space = << 0, 0, 0, 0, 0, 0, 0, 0 >>
    /\ queues = NewQueues(interval)
    /\ queue_evts = << FALSE, FALSE, FALSE >>
    /\ device_state = "Inactive"
    /\ irq_status = {}
    /\ restored = is_restored
    /\ pre_alloc_mem = pre_alloc
    /\ pre_tdp_fault = pre_tdp
    /\ stats_polling_interval_s = interval
    /\ stats_timer = 0
    /\ stats_desc_index = None
    /\ latest_stats = DefaultStats

\* the state after construction; guest memory starts zeroed
Init ==
    /\ \/ \E amount_mib \in {0}, interval \in 0 .. 1 :
            BalloonNew(amount_mib, TRUE, interval, FALSE)
       \/ \E interval \in 0 .. 1 : FaascaleMemNew(interval, FALSE, FALSE, FALSE)
    /\ mem = [p \in MappedFrames |-> "zero"]
    /\ last = Idle

stats_enabled == stats_polling_interval_s > 0

is_activated == device_state = "Activated"


(***************************************************************************)
(* Interrupts and the statistics timer.                                    *)
(***************************************************************************)
\* IrqTrigger::trigger_irq: the interrupt type is or-ed into the interrupt
\* status, then the interrupt eventfd is written; d.irq_fail tells that this
\* write fails, and the caller then gets InterruptError
trigger_irq(d, irq_type) ==
    IF d.irq_fail
    THEN [d EXCEPT !.irq_status = @ \cup {irq_type},
                   !.res = "InterruptError",
                   !.log = Append(@, Ev("irq_fail", 0, 0, irq_type))]
    ELSE [d EXCEPT !.irq_status = @ \cup {irq_type},
                   !.log = Append(@, Ev("irq", 0, 0, irq_type))]

\* signal_used_queue
signal_used_queue(d) == trigger_irq(d, "Vring")

\* update_timer_state that computes the period and does not set the timer
update_timer_state_unset(d) ==
    [d EXCEPT !.log = Append(@, Ev("set_timer", d.stats_polling_interval_s, 0, ""))]

\* update_timer_state: the timer is armed with the current interval
update_timer_state(d) ==
    [d EXCEPT !.stats_timer = d.stats_polling_interval_s,
              !.log = Append(@, Ev("set_timer", d.stats_polling_interval_s, 0, ""))]

(***************************************************************************)
(* A handler works on a copy d of the device fields it may change and      *)
(* leaves its result in d.res.                                             *)
(***************************************************************************)
Device ==
    [queues |-> queues, config_space |-> config_space,
     device_state |-> device_state, irq_status |-> irq_status,
     stats_polling_interval_s |-> stats_polling_interval_s,
     stats_timer |-> stats_timer, stats_desc_index |-> stats_desc_index,
     latest_stats |-> latest_stats, mem |-> mem, queue_evts |-> queue_evts,
     log |-> << >>, res |-> "Ok",
     \* locals of the queue processors
     pfn_buffer |-> << >>, needs_interrupt |-> FALSE, valid_descs_found |-> TRUE,
     \* the host kernel call that fails while the handler runs, "" = none
     host_fail |-> "",
     \* whether writing the interrupt eventfd fails while the handler runs
     irq_fail |-> FALSE]

\* the handler `op` ran with argument `arg` and left the device as d
Commit(op, arg, d) ==
    /\ queues' = d.queues
    /\ config_space' = d.config_space
    /\ device_state' = d.device_state
    /\ irq_status' = d.irq_status
    /\ stats_polling_interval_s' = d.stats_polling_interval_s
    /\ stats_timer' = d.stats_timer
    /\ stats_desc_index' = d.stats_desc_index
    /\ latest_stats' = d.latest_stats
    /\ mem' = d.mem
    /\ queue_evts' = d.queue_evts
    /\ last' = [op |-> op, arg |-> arg, res |-> d.res, log |-> d.log, pre |-> Pre,
                host_fail |-> IF \E k \in 1 .. Len(d.log) :
                                    d.log[k].r \in {"MmapFail", "MadviseFail"}
                              THEN d.host_fail ELSE ""]
    /\ UNCHANGED << running, event_ops, mutex, guard, kind, avail_features, acked_features, restored, pre_alloc_mem,
                    pre_tdp_fault >>

(***************************************************************************)
(* Statistics queue and timer.                                             *)
(***************************************************************************)
RECURSIVE read_stats(_, _, _)
\* the loop over the stat entries of one descriptor: the entry at stride k
read_stats(stats, head, k) ==
    IF k > Strides(head.len, SIZE_OF_STAT)
    THEN [res |-> "Ok", stats |-> stats]
    ELSE IF k > head.readable
    THEN [res |-> "MalformedDescriptor", stats |-> stats]
    ELSE LET u == update_with_stat(stats, head.data[k])
         IN  IF ~u.ok
             THEN [res |-> "MalformedPayload", stats |-> stats]
             ELSE read_stats(u.stats, head, k + 1)

RECURSIVE process_stats_queue(_)
\* process_stats_queue: `while let Some(head) = queues[STATS_INDEX].pop(mem)`
process_stats_queue(d) ==
    IF d.queues[STATS_INDEX + 1].avail = << >>
    THEN [d EXCEPT !.res = "Ok"]
    ELSE
      LET head == Head(d.queues[STATS_INDEX + 1].avail)
          d1 == [d EXCEPT !.queues[STATS_INDEX + 1] = pop(@),
                          !.log = Append(@, Ev("pop", STATS_INDEX, head.index, ""))]
          d2 == IF d1.stats_desc_index # None
                THEN [d1 EXCEPT
                        !.queues[STATS_INDEX + 1] = add_used(@, d1.stats_desc_index[1]),
                        !.log = Append(@, Ev("add_used", STATS_INDEX,
                                             d1.stats_desc_index[1], ""))]
                ELSE d1
          r == read_stats(d2.latest_stats, head, 1)
      IN  IF r.res # "Ok"
          THEN [d2 EXCEPT !.latest_stats = r.stats, !.res = r.res]
          ELSE process_stats_queue(
                 [d2 EXCEPT !.latest_stats = r.stats,
                            !.stats_desc_index = Some(head.index)])

\* trigger_stats_update that reads the pending index without taking it
trigger_stats_update_keep(d) ==
    IF d.device_state # "Activated"
    THEN [d EXCEPT !.res = "panic"]
    ELSE IF d.stats_desc_index # None
    THEN signal_used_queue(
           [d EXCEPT !.queues[STATS_INDEX + 1] = add_used(@, d.stats_desc_index[1]),
                     !.log = Append(@, Ev("add_used", STATS_INDEX,
                                          d.stats_desc_index[1], ""))])
    ELSE [d EXCEPT !.res = "Ok"]

\* trigger_stats_update that returns the pending descriptor without an
\* interrupt
trigger_stats_update_silent(d) ==
    IF d.device_state # "Activated"
    THEN [d EXCEPT !.res = "panic"]
    ELSE IF d.stats_desc_index # None
    THEN [d EXCEPT !.stats_desc_index = None,
                   !.queues[STATS_INDEX + 1] = add_used(@, d.stats_desc_index[1]),
                   !.log = Append(@, Ev("add_used", STATS_INDEX,
                                        d.stats_desc_index[1], ""))]
    ELSE [d EXCEPT !.res = "Ok"]

\* trigger_stats_update; device_state.mem().unwrap() panics on an inactive device
trigger_stats_update(d) ==
    IF d.device_state # "Activated"
    THEN [d EXCEPT !.res = "panic"]
    ELSE IF d.stats_desc_index # None
    THEN signal_used_queue(
           [d EXCEPT !.stats_desc_index = None,
                     !.queues[STATS_INDEX + 1] = add_used(@, d.stats_desc_index[1]),
                     !.log = Append(@, Ev("add_used", STATS_INDEX,
                                          d.stats_desc_index[1], ""))])
    ELSE [d EXCEPT !.res = "Ok"]

\* process_stats_queue_event that goes on to the queue when the notifier
\* holds no kick
process_stats_queue_event_no_read(d) ==
    process_stats_queue([d EXCEPT !.queue_evts[STATS_INDEX + 1] = FALSE])

\* process_stats_queue_event: the notifier is read first; reading a
\* notifier that holds no kick is an EventFd error
process_stats_queue_event(d) ==
    IF ~d.queue_evts[STATS_INDEX + 1]
    THEN [d EXCEPT !.res = "EventFd"]
    ELSE process_stats_queue([d EXCEPT !.queue_evts[STATS_INDEX + 1] = FALSE])

\* the event loop delivers the stats queue event to an activated device
\* that registered it (statistics enabled)
ProcessStatsQueueEvent ==
    /\ is_activated
    /\ stats_enabled
    /\ Commit("process_stats_queue_event", STATS_INDEX, process_stats_queue_event(Device))

\* process_stats_timer_event: the armed timer expired
ProcessStatsTimerEvent ==
    /\ is_activated
    /\ stats_timer > 0
    /\ Commit("process_stats_timer_event", 0, trigger_stats_update(Device))

(***************************************************************************)
(* Config-space access.  A u64 offset is kept as an integer r that stands  *)
(* for r mod 2^64: 0, 1, 2, ... are themselves and -1, -2, ... are         *)
(* 2^64 - 1, 2^64 - 2, ...; lengths are small naturals.                    *)
(***************************************************************************)
\* a >= n as u64 values, for a natural n
u64_ge(a, n) == a < 0 \/ a >= n

\* a + n leaves the u64 range, for a natural n
u64_add_overflows(a, n) == a < 0 /\ a + n >= 0

Min(a, b) == IF a < b THEN a ELSE b

\* read_config: the buffer `data` after the call
read_config(cs, offset, data) ==
    IF u64_ge(offset, Len(cs))
    THEN data
    ELSE IF u64_add_overflows(offset, Len(data))
    THEN data
    ELSE LET end == offset + Len(data)
             src == SubSeq(cs, offset + 1, Min(end, Len(cs)))
         IN  src \o SubSeq(data, Len(src) + 1, Len(data))

\* write_config.  `offset + data_len` is an unchecked u64 addition: when it
\* overflows, a build with overflow checks panics at the addition, and a
\* build without them wraps to an end below the offset and panics at the
\* slice [offset .. end]
write_config(cs, offset, data) ==
    IF u64_add_overflows(offset, Len(data))
    THEN [res |-> "panic", cs |-> cs]
    ELSE LET end == offset + Len(data)
         IN  IF end < 0 \/ end > Len(cs)
             THEN [res |-> "Ok", cs |-> cs]
             ELSE [res |-> "Ok",
                   cs |-> [i \in 1 .. Len(cs) |->
                             IF i > offset /\ i <= end THEN data[i - offset]
                             ELSE cs[i]]]

\* the transport writes `data` at `offset` of the config space
WriteConfig(offset, data) ==
    LET w == write_config(config_space, offset, data)
    IN  Commit("write_config", << offset, data >>,
               [Device EXCEPT !.config_space = w.cs, !.res = w.res])

\* the transport reads Len(data) bytes at `offset` into the buffer `data`
ReadConfig(offset, data) ==
    Commit("read_config", << offset, data >>,
           [Device EXCEPT
              !.log = << Ev("read_config", offset,
                            read_config(config_space, offset, data), "") >>])

(***************************************************************************)
(* Activation and host configuration updates.                              *)
(***************************************************************************)
\* activate that leaves the device activated when the notifier write fails
activate_no_revert(d, evt_ok) ==
    IF ~evt_ok
    THEN [d EXCEPT !.device_state = "Activated", !.res = "BadActivate"]
    ELSE IF d.stats_polling_interval_s > 0
    THEN update_timer_state([d EXCEPT !.device_state = "Activated"])
    ELSE [d EXCEPT !.device_state = "Activated"]

\* VirtioDevice::activate; evt_ok tells whether activate_evt.write(1) succeeds
activate(d, evt_ok) ==
    IF ~evt_ok
    THEN [d EXCEPT !.device_state = "Inactive", !.res = "BadActivate"]
    ELSE IF d.stats_polling_interval_s > 0
    THEN update_timer_state([d EXCEPT !.device_state = "Activated"])
    ELSE [d EXCEPT !.device_state = "Activated"]

Activate(evt_ok) ==
    /\ ~is_activated
    /\ Commit("activate", evt_ok, activate(Device, evt_ok))

\* update_size without the activation check
update_size_unchecked(d, amount_mib) ==
    IF mib_to_pages(amount_mib).ok
    THEN trigger_irq(
           [d EXCEPT !.config_space =
                mib_to_pages(amount_mib).pages \o SubSeq(@, 5, 8)],
           "Config")
    ELSE [d EXCEPT !.res = "TooManyPagesRequested"]

\* Balloon::update_size
update_size(d, amount_mib) ==
    IF d.device_state = "Activated"
    THEN IF mib_to_pages(amount_mib).ok
         THEN trigger_irq(
                [d EXCEPT !.config_space =
                     mib_to_pages(amount_mib).pages \o SubSeq(@, 5, 8)],
                "Config")
         ELSE [d EXCEPT !.res = "TooManyPagesRequested"]
    ELSE [d EXCEPT !.res = "DeviceNotActive"]

UpdateSize(amount_mib) ==
    /\ kind = "balloon"
    /\ Commit("update_size", amount_mib, update_size(Device, amount_mib))

\* update_stats_polling_interval that only refuses to enable statistics
update_stats_polling_interval_disable(d, interval_s) ==
    IF d.stats_polling_interval_s = interval_s
    THEN [d EXCEPT !.res = "Ok"]
    ELSE IF d.stats_polling_interval_s = 0
    THEN [d EXCEPT !.res = "StatisticsStateChange"]
    ELSE LET t == trigger_stats_update(d)
         IN  IF t.res # "Ok"
             THEN t
             ELSE update_timer_state([t EXCEPT !.stats_polling_interval_s = interval_s])

\* update_stats_polling_interval that only refuses to disable statistics
update_stats_polling_interval_enable(d, interval_s) ==
    IF d.stats_polling_interval_s = interval_s
    THEN [d EXCEPT !.res = "Ok"]
    ELSE IF interval_s = 0
    THEN [d EXCEPT !.res = "StatisticsStateChange"]
    ELSE LET t == trigger_stats_update(d)
         IN  IF t.res # "Ok"
             THEN t
             ELSE update_timer_state([t EXCEPT !.stats_polling_interval_s = interval_s])

\* update_stats_polling_interval (the same code in both devices)
update_stats_polling_interval(d, interval_s) ==
    IF d.stats_polling_interval_s = interval_s
    THEN [d EXCEPT !.res = "Ok"]
    ELSE IF d.stats_polling_interval_s = 0 \/ interval_s = 0
    THEN [d EXCEPT !.res = "StatisticsStateChange"]
    ELSE LET t == trigger_stats_update(d)
         IN  IF t.res # "Ok"
             THEN t
             ELSE update_timer_state([t EXCEPT !.stats_polling_interval_s = interval_s])

UpdateStatsPollingInterval(interval_s) ==
    Commit("update_stats_polling_interval", interval_s,
           update_stats_polling_interval(Device, interval_s))

(***************************************************************************)
(* The guest driver.                                                       *)
(***************************************************************************)
\* the k-th stat entry of a well-formed stats descriptor: tag k - 1, value 1
StatEntry(k) == << (k - 1) % (VIRTIO_S_HTLB_PGFAIL + 1), 1 >>

\* a stat entry with a tag the device does not know
UnknownStat == << VIRTIO_S_HTLB_PGFAIL + 1, 1 >>

Desc(index, is_write_only, len, data, readable) ==
    [index |-> index, is_write_only |-> is_write_only, len |-> len,
     data |-> data, readable |-> readable]

\* the chains the driver may put on the stats queue: an empty one, and
\* with MaxStatEntries entries a well-formed one, one whose last entry has
\* an unknown tag and one whose last entry cannot be read
StatsDescs(index) ==
    LET n == MaxStatEntries
    IN  { Desc(index, FALSE, 0, << >>, 0),
          Desc(index, FALSE, n * SIZE_OF_STAT, [k \in 1 .. n |-> StatEntry(k)], n),
          Desc(index, FALSE, n * SIZE_OF_STAT,
               [k \in 1 .. n |-> IF k = n THEN UnknownStat ELSE StatEntry(k)], n),
          Desc(index, FALSE, n * SIZE_OF_STAT, [k \in 1 .. n |-> StatEntry(k)], n - 1) }

GuestEffect ==
    /\ last' = Idle
    /\ UNCHANGED << running, event_ops, mutex, guard, kind, avail_features, acked_features, config_space, device_state,
                    irq_status,
                    restored, pre_alloc_mem, pre_tdp_fault, stats_polling_interval_s,
                    stats_timer, stats_desc_index, latest_stats >>


\* the driver makes the chain `desc` available on queue qi and kicks it
GuestPost(qi, desc) ==
    /\ is_activated
    /\ qi + 1 <= Len(queues)
    /\ desc.index \in FreeIndices(queues[qi + 1])
    /\ queues' = [queues EXCEPT ![qi + 1].avail = Append(@, desc)]
    /\ queue_evts' = [queue_evts EXCEPT ![qi + 1] = TRUE]
    /\ mem' = mem
    /\ GuestEffect

\* the driver makes a stats chain available, with the lowest free index,
\* after it took what the device returned
GuestPostStats ==
    /\ Len(queues) = NUM_QUEUES
    /\ FreeIndices(queues[STATS_INDEX + 1]) # {}
    /\ queues[STATS_INDEX + 1].used = << >>
    /\ \E desc \in StatsDescs(NextIndex(queues[STATS_INDEX + 1])) :
         GuestPost(STATS_INDEX, desc)

\* the driver takes the entries of the used ring of queue qi
GuestCollectUsed(qi) ==
    /\ qi + 1 <= Len(queues)
    /\ queues[qi + 1].used # << >>
    /\ queues' = [queues EXCEPT ![qi + 1].used = << >>]
    /\ UNCHANGED << queue_evts, mem >>
    /\ GuestEffect

(***************************************************************************)
(* The device state machine: activation, configuration updates and the     *)
(* statistics pipeline of both devices.                                    *)
(***************************************************************************)
AmountMibs == {16, 16777215, 16777216}

Next ==
    \/ \E evt_ok \in BOOLEAN : Activate(evt_ok)
    \/ \E amount_mib \in AmountMibs : UpdateSize(amount_mib)
    \/ \E interval_s \in 0 .. MaxInterval : UpdateStatsPollingInterval(interval_s)
    \/ ProcessStatsQueueEvent
    \/ ProcessStatsTimerEvent
    \/ GuestPostStats
    \/ GuestCollectUsed(STATS_INDEX)

\* the device on a host where the interrupt eventfd can always be written
Spec == Init /\ [][Next]_vars

(***************************************************************************)
(* The same state machine on a host where the write to the interrupt       *)
(* eventfd may fail: every handler that raises an interrupt may also run   *)
(* with that write failing.                                                *)
(***************************************************************************)
UpdateSizeIrqFail(amount_mib) ==
    /\ kind = "balloon"
    /\ Commit("update_size", amount_mib,
              update_size([Device EXCEPT !.irq_fail = TRUE], amount_mib))

UpdateStatsPollingIntervalIrqFail(interval_s) ==
    Commit("update_stats_polling_interval", interval_s,
           update_stats_polling_interval([Device EXCEPT !.irq_fail = TRUE], interval_s))

ProcessStatsTimerEventIrqFail ==
    /\ is_activated
    /\ stats_timer > 0
    /\ Commit("process_stats_timer_event", 0,
              trigger_stats_update([Device EXCEPT !.irq_fail = TRUE]))

NextIrqFail ==
    \/ Next
    \/ \E amount_mib \in AmountMibs : UpdateSizeIrqFail(amount_mib)
    \/ \E interval_s \in 0 .. MaxInterval : UpdateStatsPollingIntervalIrqFail(interval_s)
    \/ ProcessStatsTimerEventIrqFail

SpecIrqFail == Init /\ [][NextIrqFail]_vars

(***************************************************************************)
(* update_with_stat on its own: entries with every tag, the known ones,    *)
(* the first unknown one and 99, are applied to the statistics snapshot.   *)
(***************************************************************************)
StatFieldsSet(stats) == { f \in DOMAIN DefaultStats : stats[f] # None }

UpdateWithStat(tag, val) ==
    /\ Cardinality(StatFieldsSet(latest_stats)) <= MaxStatFields
    /\ LET u == update_with_stat(latest_stats, << tag, val >>)
       IN  /\ latest_stats' = u.stats
           /\ last' = [op |-> "update_with_stat", arg |-> << tag, val >>,
                       res |-> IF u.ok THEN "Ok" ELSE "MalformedPayload",
                       log |-> << >>, pre |-> Pre, host_fail |-> ""]
    /\ UNCHANGED << running, event_ops, mutex, guard, kind, avail_features, acked_features, config_space, queues,
                    queue_evts,
                    device_state, irq_status, restored, pre_alloc_mem,
                    pre_tdp_fault, stats_polling_interval_s, stats_timer,
                    stats_desc_index, mem >>

NextStats ==
    \E tag \in (0 .. VIRTIO_S_HTLB_PGFAIL + 1) \cup {99}, val \in 0 .. MaxStatVal :
        UpdateWithStat(tag, val)

SpecStats == Init /\ [][NextStats]_vars

(***************************************************************************)
(* The device of Spec with the transport also writing the config space:    *)
(* the driver reports actual_pages (offset 4), and a write that starts at  *)
(* the end of the space.                                                   *)
(***************************************************************************)
NextWrites ==
    \/ Next
    \/ \E actual \in 0 .. 1 : WriteConfig(SIZE_OF_U32, << actual, 0, 0, 0 >>)
    \/ WriteConfig(CONFIG_SPACE_SIZE, << 1 >>)

SpecWrites == Init /\ [][NextWrites]_vars

(***************************************************************************)
(* read_config and write_config on their own: the balloon is constructed   *)
(* with 0 or 16 MiB, the transport writes once, with every offset around   *)
(* the config space and at the top of the u64 range and every length up to *)
(* one more than the space, and reads with the same offsets and lengths.   *)
(***************************************************************************)
ConfigOffsets == (0 .. CONFIG_SPACE_SIZE + 1) \cup {-1, -CONFIG_SPACE_SIZE}
ConfigLens == 0 .. CONFIG_SPACE_SIZE + 1

InitConfig ==
    /\ \E amount_mib \in {0, 16} : BalloonNew(amount_mib, TRUE, 0, FALSE)
    /\ mem = [p \in MappedFrames |-> "zero"]
    /\ last = Idle

NextConfig ==
    \/ \E offset \in ConfigOffsets, len \in ConfigLens :
          /\ last = Idle
          /\ WriteConfig(offset, [k \in 1 .. len |-> 16 + k])
    \/ \E offset \in ConfigOffsets, len \in ConfigLens :
          ReadConfig(offset, [k \in 1 .. len |-> 255])

SpecConfig == InitConfig /\ [][NextConfig]_vars

(***************************************************************************)
(* Snapshot save and restore of the mem-scale device (persist.rs), and the *)
(* device life cycle with feature negotiation and snapshots.               *)
(***************************************************************************)
\* FaascaleMemStatsState::from_stats
from_stats(stats) ==
    [swap_in |-> stats.swap_in, swap_out |-> stats.swap_out,
     major_faults |-> stats.major_faults, minor_faults |-> stats.minor_faults,
     free_memory |-> stats.free_memory, total_memory |-> stats.total_memory,
     available_memory |-> stats.available_memory,
     disk_caches |-> stats.disk_caches,
     hugetlb_allocations |-> stats.hugetlb_allocations,
     hugetlb_failures |-> stats.hugetlb_failures]

\* FaascaleMemStatsState::create_stats
create_stats(s) ==
    [swap_in |-> s.swap_in, swap_out |-> s.swap_out,
     major_faults |-> s.major_faults, minor_faults |-> s.minor_faults,
     free_memory |-> s.free_memory, total_memory |-> s.total_memory,
     available_memory |-> s.available_memory,
     disk_caches |-> s.disk_caches,
     hugetlb_allocations |-> s.hugetlb_allocations,
     hugetlb_failures |-> s.hugetlb_failures]

\* VirtioDeviceState::from_device: feature bits, interrupt status,
\* activation and the ring state of every queue
from_device ==
    [avail_features |-> avail_features, acked_features |-> acked_features,
     interrupt_status |-> irq_status, activated |-> is_activated,
     queues |-> queues]

\* Persist::save
save ==
    [stats_polling_interval_s |-> stats_polling_interval_s,
     stats_desc_index |-> stats_desc_index,
     latest_stats |-> from_stats(latest_stats),
     config_space |-> [num_pages |-> SubSeq(config_space, 1, 4),
                       actual_pages |-> SubSeq(config_space, 5, 8)],
     virtio_state |-> from_device]

\* VirtioDeviceState::build_queues_checked: the persisted queues, when
\* there are num_queues of them
build_queues_checked(virtio_state, num_queues) ==
    IF Len(virtio_state.queues) = num_queues
    THEN [ok |-> TRUE, queues |-> virtio_state.queues]
    ELSE [ok |-> FALSE, queues |-> << >>]

\* restore that restores the pending stats descriptor only when the timer
\* is not restarted
restore_drop_pending(state) ==
    LET new == [avail_features |->
                    {VIRTIO_F_VERSION_1}
                      \cup (IF state.stats_polling_interval_s > 0
                            THEN {VIRTIO_FAASCALE_MEM_F_STATS_VQ} ELSE {}),
                acked_features |-> {},
                config_space |-> << 0, 0, 0, 0, 0, 0, 0, 0 >>,
                queues |-> NewQueues(state.stats_polling_interval_s),
                queue_evts |-> << FALSE, FALSE, FALSE >>,
                device_state |-> "Inactive", irq_status |-> {},
                restored |-> TRUE,
                stats_polling_interval_s |-> state.stats_polling_interval_s,
                stats_timer |-> 0, stats_desc_index |-> None,
                latest_stats |-> DefaultStats, res |-> "Ok", log |-> << >>]
        num_queues == IF state.stats_polling_interval_s = 0
                      THEN NUM_QUEUES - 1 ELSE NUM_QUEUES
        q == build_queues_checked(state.virtio_state, num_queues)
        d1 == [new EXCEPT
                 !.queues = q.queues,
                 !.irq_status = state.virtio_state.interrupt_status,
                 !.avail_features = state.virtio_state.avail_features,
                 !.acked_features = state.virtio_state.acked_features,
                 !.latest_stats = create_stats(state.latest_stats),
                 !.config_space = state.config_space.num_pages
                                    \o state.config_space.actual_pages]
    IN  IF ~q.ok
        THEN [new EXCEPT !.res = "QueueRestoreError"]
        ELSE IF ~state.virtio_state.activated
        THEN d1
        ELSE IF d1.stats_polling_interval_s > 0
        THEN [d1 EXCEPT
                !.device_state = "Activated",
                !.stats_timer = state.stats_polling_interval_s,
                !.log = Append(@, Ev("set_timer", state.stats_polling_interval_s, 0, ""))]
        ELSE [d1 EXCEPT !.device_state = "Activated"]

\* Persist::restore: FaascaleMem::new(interval, restored = true), then the
\* persisted fields are written over the new device
restore(state) ==
    LET new == [avail_features |->
                    {VIRTIO_F_VERSION_1}
                      \cup (IF state.stats_polling_interval_s > 0
                            THEN {VIRTIO_FAASCALE_MEM_F_STATS_VQ} ELSE {}),
                acked_features |-> {},
                config_space |-> << 0, 0, 0, 0, 0, 0, 0, 0 >>,
                queues |-> NewQueues(state.stats_polling_interval_s),
                queue_evts |-> << FALSE, FALSE, FALSE >>,
                device_state |-> "Inactive", irq_status |-> {},
                restored |-> TRUE,
                stats_polling_interval_s |-> state.stats_polling_interval_s,
                stats_timer |-> 0, stats_desc_index |-> None,
                latest_stats |-> DefaultStats, res |-> "Ok", log |-> << >>]
        num_queues == IF state.stats_polling_interval_s = 0
                      THEN NUM_QUEUES - 1 ELSE NUM_QUEUES
        q == build_queues_checked(state.virtio_state, num_queues)
        d1 == [new EXCEPT
                 !.queues = q.queues,
                 !.irq_status = state.virtio_state.interrupt_status,
                 !.avail_features = state.virtio_state.avail_features,
                 !.acked_features = state.virtio_state.acked_features,
                 !.latest_stats = create_stats(state.latest_stats),
                 !.config_space = state.config_space.num_pages
                                    \o state.config_space.actual_pages]
    IN  IF ~q.ok
        THEN [new EXCEPT !.res = "QueueRestoreError"]
        ELSE IF ~state.virtio_state.activated
        THEN d1
        ELSE IF d1.stats_polling_interval_s > 0
        THEN [d1 EXCEPT
                !.device_state = "Activated",
                !.stats_desc_index = state.stats_desc_index,
                !.stats_timer = state.stats_polling_interval_s,
                !.log = Append(@, Ev("set_timer", state.stats_polling_interval_s, 0, ""))]
        ELSE [d1 EXCEPT !.device_state = "Activated"]

\* a snapshot of the mem-scale device is taken and the device of the new
\* process is restored from it; guest memory comes back with its content
\* and the notifiers are new.  restore passes no pre_alloc_mem and
\* pre_tdp_fault to FaascaleMem::new, so the restored device may carry any.
SaveRestore(pre_alloc, pre_tdp) ==
    /\ kind = "faascale_mem"
    /\ LET d == restore(save)
       IN  /\ d.res = "Ok"
           /\ avail_features' = d.avail_features
           /\ acked_features' = d.acked_features
           /\ config_space' = d.config_space
           /\ queues' = d.queues
           /\ queue_evts' = d.queue_evts
           /\ device_state' = d.device_state
           /\ irq_status' = d.irq_status
           /\ restored' = d.restored
           /\ stats_polling_interval_s' = d.stats_polling_interval_s
           /\ stats_timer' = d.stats_timer
           /\ stats_desc_index' = d.stats_desc_index
           /\ latest_stats' = d.latest_stats
           /\ last' = [op |-> "restore", arg |-> 0, res |-> d.res, log |-> d.log,
                       pre |-> Pre, host_fail |-> ""]
    /\ pre_alloc_mem' = pre_alloc
    /\ pre_tdp_fault' = pre_tdp
    /\ UNCHANGED << running, event_ops, mutex, guard, kind, mem >>

\* VirtioDevice::set_acked_features: the driver acknowledges offered
\* feature bits before it activates the device
SetAckedFeatures(features) ==
    /\ ~is_activated
    /\ features \subseteq avail_features
    /\ acked_features # features
    /\ acked_features' = features
    /\ last' = Idle
    /\ UNCHANGED << running, event_ops, mutex, guard, kind, avail_features, config_space, queues, queue_evts,
                    device_state, irq_status, restored, pre_alloc_mem,
                    pre_tdp_fault, stats_polling_interval_s, stats_timer,
                    stats_desc_index, latest_stats, mem >>

\* the mem-scale device after construction
InitPersist ==
    /\ \E interval \in 0 .. 1 : FaascaleMemNew(interval, FALSE, FALSE, FALSE)
    /\ mem = [p \in MappedFrames |-> "zero"]
    /\ last = Idle

NextPersist ==
    \/ \E evt_ok \in BOOLEAN : Activate(evt_ok)
    \/ \E interval_s \in 0 .. MaxInterval : UpdateStatsPollingInterval(interval_s)
    \/ ProcessStatsQueueEvent
    \/ ProcessStatsTimerEvent
    \/ GuestPostStats
    \/ GuestCollectUsed(STATS_INDEX)
    \/ SetAckedFeatures(avail_features)
    \/ \E pre \in BOOLEAN : SaveRestore(pre, pre)

SpecPersist == InitPersist /\ [][NextPersist]_vars

(***************************************************************************)
(* Guest memory and the range operators.  A page reads "zero" after the    *)
(* host dropped it, "data" after the guest wrote it and "KINGDO" when it   *)
(* starts with the marker populate_range writes.                           *)
(***************************************************************************)
\* find_region that takes the end address of a region as part of it
find_region_inclusive(addr) ==
    { r \in Regions : r.start_addr <= addr /\ addr <= r.start_addr + r.len }

\* GuestMemoryMmap::find_region: the regions that contain addr
find_region(addr) ==
    { r \in Regions : r.start_addr <= addr /\ addr < r.start_addr + r.len }

\* the mapped pages of [addr, addr + len)
PagesOf(addr, len) ==
    { p \in MappedFrames : addr <= p * PAGE_SIZE /\ p * PAGE_SIZE < addr + len }

\* the content of the range is dropped: its pages read zero
ZeroPages(m, addr, len) ==
    [p \in MappedFrames |-> IF p \in PagesOf(addr, len) THEN "zero" ELSE m[p]]

\* remove_range without the `if restored` block: madvise alone
remove_range_no_overlay(m, addr, len, is_restored, host_fail) ==
    IF find_region(addr) = {}
    THEN [res |-> "RegionNotFound", mem |-> m, calls |-> << >>]
    ELSE
      LET region == CHOOSE r \in find_region(addr) : TRUE
      IN  IF addr + len > region.start_addr + region.len
          THEN [res |-> "MalformedRange", mem |-> m, calls |-> << >>]
          ELSE IF host_fail = "madvise"
          THEN [res |-> "MadviseFail", mem |-> m, calls |-> << "madvise" >>]
          ELSE [res |-> "Ok", mem |-> ZeroPages(m, addr, len),
                calls |-> << "madvise" >>]

\* remove_range on guest memory m; calls are the host calls made, in
\* order.  get_host_address cannot fail for an address find_region found.
\* mmap of an empty range fails (EINVAL).  host_fail names the host call
\* that fails while the handler runs.
remove_range(m, addr, len, is_restored, host_fail) ==
    IF find_region(addr) = {}
    THEN [res |-> "RegionNotFound", mem |-> m, calls |-> << >>]
    ELSE
      LET region == CHOOSE r \in find_region(addr) : TRUE
      IN  IF addr + len > region.start_addr + region.len
          THEN [res |-> "MalformedRange", mem |-> m, calls |-> << >>]
          ELSE IF is_restored /\ (len = 0 \/ host_fail = "mmap")
          THEN [res |-> "MmapFail", mem |-> m, calls |-> << "mmap" >>]
          ELSE
            LET m1 == IF is_restored THEN ZeroPages(m, addr, len) ELSE m
                c1 == IF is_restored THEN << "mmap" >> ELSE << >>
            IN  IF host_fail = "madvise"
                THEN [res |-> "MadviseFail", mem |-> m1,
                      calls |-> Append(c1, "madvise")]
                ELSE [res |-> "Ok", mem |-> ZeroPages(m1, addr, len),
                      calls |-> Append(c1, "madvise")]

\* populate_range on guest memory m.  The marker is copied to the start
\* address whatever the length of the range; the result of the
\* KVM_PREALLOC_USER_MEMORY_REGION ioctl is not looked at.
populate_range(m, addr, len, is_restored, pre_mem_alloc, pre_tdp_alloc, host_fail) ==
    IF find_region(addr) = {}
    THEN [res |-> "RegionNotFound", mem |-> m, calls |-> << >>]
    ELSE
      LET region == CHOOSE r \in find_region(addr) : TRUE
      IN  IF addr + len > region.start_addr + region.len
          THEN [res |-> "MalformedRange", mem |-> m, calls |-> << >>]
          ELSE IF is_restored /\ (len = 0 \/ host_fail = "mmap")
          THEN [res |-> "MmapFail", mem |-> m, calls |-> << "mmap" >>]
          ELSE
            LET m1 == IF is_restored THEN ZeroPages(m, addr, len) ELSE m
                c1 == IF is_restored THEN << "mmap" >> ELSE << >>
                c2 == IF pre_mem_alloc THEN Append(c1, "madvise") ELSE c1
                c3 == Append(c2, "memcpy")
            IN  IF pre_mem_alloc /\ host_fail = "madvise"
                THEN [res |-> "MadviseFail", mem |-> m1, calls |-> c2]
                ELSE [res |-> "Ok",
                      mem |-> [m1 EXCEPT ![addr \div PAGE_SIZE] = "KINGDO"],
                      calls |-> IF pre_tdp_alloc THEN Append(c3, "ioctl") ELSE c3]

(***************************************************************************)
(* compact_page_frame_numbers (balloon/util.rs): the buffer is sorted and  *)
(* every maximal run of consecutive frame numbers becomes one              *)
(* (start_frame, run_length) pair; a repeated frame number starts a new    *)
(* pair.                                                                   *)
(***************************************************************************)
RECURSIVE InsertSorted(_, _)
InsertSorted(x, s) ==
    IF s = << >> THEN << x >>
    ELSE IF x <= Head(s) THEN << x >> \o s
    ELSE << Head(s) >> \o InsertSorted(x, Tail(s))

RECURSIVE sort_unstable(_)
\* the slice sorted ascending
sort_unstable(v) == IF v = << >> THEN << >> ELSE InsertSorted(Head(v), sort_unstable(Tail(v)))

RECURSIVE MergeRuns(_, _)
\* the pairs of the sorted buffer s, given the pairs `acc` of what precedes it
MergeRuns(s, acc) ==
    IF s = << >> THEN acc
    ELSE LET n == Len(acc)
         IN  IF n > 0 /\ acc[n][1] + acc[n][2] = Head(s)
             THEN MergeRuns(Tail(s), [acc EXCEPT ![n] = << @[1], @[2] + 1 >>])
             ELSE MergeRuns(Tail(s), Append(acc, << Head(s), 1 >>))

compact_page_frame_numbers(v) == MergeRuns(sort_unstable(v), << >>)

(***************************************************************************)
(* Balloon inflate and deflate queues.                                     *)
(***************************************************************************)
\* one host call of a range operator, as an effect
CallEvs(calls, addr, len) == [k \in 1 .. Len(calls) |-> Ev(calls[k], addr, len, "")]

\* the length check alone
is_valid_desc_any_flags(head, size_of_entry) ==
    head.len % size_of_entry = 0

\* `!head.is_write_only() && len % SIZE_OF_U32 == 0` (SIZE_OF_BLOCK_INFO
\* in process_populate_queue)
is_valid_desc(head, size_of_entry) ==
    ~head.is_write_only /\ head.len % size_of_entry = 0

RECURSIVE remove_ranges_one_page(_, _, _)
\* the loop passing one page per pair to remove_range, whatever range_len is
remove_ranges_one_page(d, page_ranges, k) ==
    IF k > Len(page_ranges) THEN d
    ELSE LET guest_addr == page_ranges[k][1] * PAGE_SIZE
             r == remove_range(d.mem, guest_addr, PAGE_SIZE, restored, d.host_fail)
         IN  remove_ranges_one_page(
               [d EXCEPT !.mem = r.mem,
                         !.log = (@ \o CallEvs(r.calls, guest_addr, PAGE_SIZE))
                                   \o << Ev("remove_range", guest_addr, PAGE_SIZE, r.res) >>],
               page_ranges, k + 1)

RECURSIVE remove_ranges(_, _, _)
\* `for (page_frame_number, range_len) in page_ranges`: an error of
\* remove_range is logged and the loop goes on
remove_ranges(d, page_ranges, k) ==
    IF k > Len(page_ranges) THEN d
    ELSE LET guest_addr == page_ranges[k][1] * PAGE_SIZE
             len == page_ranges[k][2] * PAGE_SIZE
             r == remove_range(d.mem, guest_addr, len, restored, d.host_fail)
         IN  remove_ranges(
               [d EXCEPT !.mem = r.mem,
                         !.log = (@ \o CallEvs(r.calls, guest_addr, len))
                                   \o << Ev("remove_range", guest_addr, len, r.res) >>],
               page_ranges, k + 1)

RECURSIVE inflate_pop_loop(_)
\* the inner loop of process_inflate_queue,
\* `while let Some(head) = queue.pop(mem)`; d.res # "Ok" when `?` returned
inflate_pop_loop(d) ==
    IF d.queues[INFLATE_INDEX + 1].avail = << >>
    THEN d
    ELSE
      LET head == Head(d.queues[INFLATE_INDEX + 1].avail)
          len == head.len
          max_len == MAX_PAGES_IN_DESC * SIZE_OF_U32
          d1 == [d EXCEPT !.queues[INFLATE_INDEX + 1] = pop(@),
                          !.log = Append(@, Ev("pop", INFLATE_INDEX, head.index, "")),
                          !.valid_descs_found = TRUE]
          acked(x) == [x EXCEPT !.queues[INFLATE_INDEX + 1] = add_used(@, head.index),
                                !.log = Append(@, Ev("add_used", INFLATE_INDEX,
                                                     head.index, "")),
                                !.needs_interrupt = TRUE]
      IN  IF is_valid_desc(head, SIZE_OF_U32)
          THEN IF len > max_len
               THEN inflate_pop_loop(d1)
               ELSE IF MAX_PAGE_COMPACT_BUFFER - Len(d1.pfn_buffer) < len \div SIZE_OF_U32
               THEN [d1 EXCEPT !.queues[INFLATE_INDEX + 1] = undo_pop(@, head),
                               !.log = Append(@, Ev("undo_pop", INFLATE_INDEX,
                                                    head.index, ""))]
               ELSE IF head.readable < Strides(len, SIZE_OF_U32)
               THEN [d1 EXCEPT !.pfn_buffer = @ \o SubSeq(head.data, 1, head.readable),
                               !.res = "MalformedDescriptor"]
               ELSE inflate_pop_loop(acked([d1 EXCEPT !.pfn_buffer = @ \o head.data]))
          ELSE inflate_pop_loop(acked(d1))

RECURSIVE inflate_batches(_)
\* the outer loop of process_inflate_queue, `while valid_descs_found`
inflate_batches(d) ==
    IF ~d.valid_descs_found
    THEN d
    ELSE
      LET d1 == inflate_pop_loop([d EXCEPT !.valid_descs_found = FALSE])
      IN  IF d1.res # "Ok"
          THEN d1
          ELSE inflate_batches(
                 remove_ranges([d1 EXCEPT !.pfn_buffer = << >>],
                               compact_page_frame_numbers(d1.pfn_buffer), 1))

\* process_inflate_queue
process_inflate_queue(d) ==
    LET d1 == inflate_batches(d)
    IN  IF d1.res = "Ok" /\ d1.needs_interrupt THEN signal_used_queue(d1) ELSE d1

\* process_inflate_queue_event
process_inflate_queue_event(d) ==
    IF ~d.queue_evts[INFLATE_INDEX + 1]
    THEN [d EXCEPT !.res = "EventFd"]
    ELSE process_inflate_queue([d EXCEPT !.queue_evts[INFLATE_INDEX + 1] = FALSE])

RECURSIVE deflate_pop_loop_reclaims(_)
\* the loop of process_deflate_queue taking the payload of a readable
\* descriptor for frame numbers to reclaim
deflate_pop_loop_reclaims(d) ==
    IF d.queues[DEFLATE_INDEX + 1].avail = << >>
    THEN d
    ELSE LET head == Head(d.queues[DEFLATE_INDEX + 1].avail)
             d1 == IF head.is_write_only THEN d
                   ELSE remove_ranges(d, compact_page_frame_numbers(head.data), 1)
         IN  deflate_pop_loop_reclaims(
               [d1 EXCEPT !.queues[DEFLATE_INDEX + 1] = add_used(pop(@), head.index),
                          !.log = (@ \o << Ev("pop", DEFLATE_INDEX, head.index, "") >>)
                                    \o << Ev("add_used", DEFLATE_INDEX, head.index, "") >>,
                          !.needs_interrupt = TRUE])

RECURSIVE deflate_pop_loop(_)
\* the loop of process_deflate_queue
deflate_pop_loop(d) ==
    IF d.queues[DEFLATE_INDEX + 1].avail = << >>
    THEN d
    ELSE LET head == Head(d.queues[DEFLATE_INDEX + 1].avail)
         IN  deflate_pop_loop(
               [d EXCEPT !.queues[DEFLATE_INDEX + 1] = add_used(pop(@), head.index),
                         !.log = (@ \o << Ev("pop", DEFLATE_INDEX, head.index, "") >>)
                                   \o << Ev("add_used", DEFLATE_INDEX, head.index, "") >>,
                         !.needs_interrupt = TRUE])

\* process_deflate_queue
process_deflate_queue(d) ==
    LET d1 == deflate_pop_loop(d)
    IN  IF d1.needs_interrupt THEN signal_used_queue(d1) ELSE d1

\* process_deflate_queue_event
process_deflate_queue_event(d) ==
    IF ~d.queue_evts[DEFLATE_INDEX + 1]
    THEN [d EXCEPT !.res = "EventFd"]
    ELSE process_deflate_queue([d EXCEPT !.queue_evts[DEFLATE_INDEX + 1] = FALSE])

(***************************************************************************)
(* Faascale-mem populate and depopulate queues.                            *)
(***************************************************************************)
RECURSIVE populate_blocks_swapped(_, _, _, _)
\* the loop over the blocks of head with the two queues taken for each other
populate_blocks_swapped(d, queue_index, head, k) ==
    IF k > Strides(head.len, SIZE_OF_BLOCK_INFO)
    THEN d
    ELSE IF k > head.readable
    THEN [d EXCEPT !.res = "MalformedDescriptor"]
    ELSE
      LET block == head.data[k]
          guest_addr == block[1] * PAGE_SIZE
          len == block[2] * PAGE_SIZE
          r == IF queue_index = DEPOPULATE_INDEX
               THEN populate_range(d.mem, guest_addr, len, restored, pre_alloc_mem,
                                   pre_tdp_fault, d.host_fail)
               ELSE remove_range(d.mem, guest_addr, len, restored, d.host_fail)
          op == IF queue_index = DEPOPULATE_INDEX THEN "populate_range" ELSE "remove_range"
      IN  populate_blocks_swapped(
            [d EXCEPT !.mem = r.mem,
                      !.log = (@ \o CallEvs(r.calls, guest_addr, len))
                                \o << Ev(op, guest_addr, len, r.res) >>],
            queue_index, head, k + 1)

RECURSIVE populate_blocks_stop_on_error(_, _, _, _)
\* the loop over the blocks of head leaving at the first range operator
\* error
populate_blocks_stop_on_error(d, queue_index, head, k) ==
    IF k > Strides(head.len, SIZE_OF_BLOCK_INFO)
    THEN d
    ELSE IF k > head.readable
    THEN [d EXCEPT !.res = "MalformedDescriptor"]
    ELSE
      LET block == head.data[k]
          guest_addr == block[1] * PAGE_SIZE
          len == block[2] * PAGE_SIZE
          r == IF queue_index = POPULATE_INDEX
               THEN populate_range(d.mem, guest_addr, len, restored, pre_alloc_mem,
                                   pre_tdp_fault, d.host_fail)
               ELSE remove_range(d.mem, guest_addr, len, restored, d.host_fail)
          op == IF queue_index = POPULATE_INDEX THEN "populate_range" ELSE "remove_range"
          d1 == [d EXCEPT !.mem = r.mem,
                          !.log = (@ \o CallEvs(r.calls, guest_addr, len))
                                    \o << Ev(op, guest_addr, len, r.res) >>]
      IN  IF r.res # "Ok" THEN d1
          ELSE populate_blocks_stop_on_error(d1, queue_index, head, k + 1)

RECURSIVE populate_blocks(_, _, _, _)
\* `for index in (0..len).step_by(SIZE_OF_BLOCK_INFO)`: block k of head
populate_blocks(d, queue_index, head, k) ==
    IF k > Strides(head.len, SIZE_OF_BLOCK_INFO)
    THEN d
    ELSE IF k > head.readable
    THEN [d EXCEPT !.res = "MalformedDescriptor"]
    ELSE
      LET block == head.data[k]
          guest_addr == block[1] * PAGE_SIZE
          len == block[2] * PAGE_SIZE
          r == IF queue_index = POPULATE_INDEX
               THEN populate_range(d.mem, guest_addr, len, restored, pre_alloc_mem,
                                   pre_tdp_fault, d.host_fail)
               ELSE remove_range(d.mem, guest_addr, len, restored, d.host_fail)
          op == IF queue_index = POPULATE_INDEX THEN "populate_range" ELSE "remove_range"
      IN  populate_blocks(
            [d EXCEPT !.mem = r.mem,
                      !.log = (@ \o CallEvs(r.calls, guest_addr, len))
                                \o << Ev(op, guest_addr, len, r.res) >>],
            queue_index, head, k + 1)

RECURSIVE populate_pop_loop(_, _)
\* the loop of process_populate_queue(queue_index)
populate_pop_loop(d, queue_index) ==
    IF d.queues[queue_index + 1].avail = << >>
    THEN d
    ELSE
      LET head == Head(d.queues[queue_index + 1].avail)
          len == head.len
          max_len == MAX_BLOCKS_IN_DESC * SIZE_OF_BLOCK_INFO
          d1 == [d EXCEPT !.queues[queue_index + 1] = pop(@),
                          !.log = Append(@, Ev("pop", queue_index, head.index, ""))]
          acked(x) == [x EXCEPT !.queues[queue_index + 1] = add_used(@, head.index),
                                !.log = Append(@, Ev("add_used", queue_index,
                                                     head.index, "")),
                                !.needs_interrupt = TRUE]
      IN  IF is_valid_desc(head, SIZE_OF_BLOCK_INFO)
          THEN IF len > max_len
               THEN populate_pop_loop(d1, queue_index)
               ELSE LET d2 == populate_blocks(d1, queue_index, head, 1)
                    IN  IF d2.res # "Ok"
                        THEN d2
                        ELSE populate_pop_loop(acked(d2), queue_index)
          ELSE populate_pop_loop(acked(d1), queue_index)

\* process_populate_queue
process_populate_queue(d, queue_index) ==
    LET d1 == populate_pop_loop(d, queue_index)
    IN  IF d1.res = "Ok" /\ d1.needs_interrupt THEN signal_used_queue(d1) ELSE d1

\* process_populate_queue_event
process_populate_queue_event(d) ==
    IF ~d.queue_evts[POPULATE_INDEX + 1]
    THEN [d EXCEPT !.res = "EventFd"]
    ELSE process_populate_queue([d EXCEPT !.queue_evts[POPULATE_INDEX + 1] = FALSE],
                                POPULATE_INDEX)

\* process_depopulate_queue_event
process_depopulate_queue_event(d) ==
    IF ~d.queue_evts[DEPOPULATE_INDEX + 1]
    THEN [d EXCEPT !.res = "EventFd"]
    ELSE process_populate_queue([d EXCEPT !.queue_evts[DEPOPULATE_INDEX + 1] = FALSE],
                                DEPOPULATE_INDEX)

(***************************************************************************)
(* The event loop delivers queue events to an activated device; the host   *)
(* call that fails during the handler, if any, is an input.                *)
(***************************************************************************)
HostFails == { "", "mmap", "madvise" }

ProcessInflateQueueEvent ==
    /\ kind = "balloon"
    /\ is_activated
    /\ \E hf \in HostFails :
         Commit("process_inflate_queue_event", INFLATE_INDEX,
                process_inflate_queue_event([Device EXCEPT !.host_fail = hf]))

ProcessDeflateQueueEvent ==
    /\ kind = "balloon"
    /\ is_activated
    /\ Commit("process_deflate_queue_event", DEFLATE_INDEX,
              process_deflate_queue_event(Device))

ProcessPopulateQueueEvent ==
    /\ kind = "faascale_mem"
    /\ is_activated
    /\ \E hf \in HostFails :
         Commit("process_populate_queue_event", POPULATE_INDEX,
                process_populate_queue_event([Device EXCEPT !.host_fail = hf]))

ProcessDepopulateQueueEvent ==
    /\ kind = "faascale_mem"
    /\ is_activated
    /\ \E hf \in HostFails :
         Commit("process_depopulate_queue_event", DEPOPULATE_INDEX,
                process_depopulate_queue_event([Device EXCEPT !.host_fail = hf]))

(***************************************************************************)
(* The guest driver on the page queues.                                    *)
(***************************************************************************)
\* the page frame numbers of a descriptor of n entries: n frames counted
\* up from any frame, going round from the first unmapped frame to frame 0
PfnPayloads(n) ==
    { [k \in 1 .. n |-> (f + k - 1) % (NumPages + 1)] : f \in Frames }

\* the chains the driver may put on the inflate queue: device-writable,
\* of a length that is no multiple of 4, longer than the maximum, with a
\* last entry that cannot be read, empty, and well-formed ones of one
\* entry and of MAX_PAGES_IN_DESC entries
InflateDescs(index) ==
    { Desc(index, TRUE, SIZE_OF_U32, << 0 >>, 1),
      Desc(index, FALSE, SIZE_OF_U32 + 1, << 0, 0 >>, 2),
      Desc(index, FALSE, (MAX_PAGES_IN_DESC + 1) * SIZE_OF_U32,
           [k \in 1 .. MAX_PAGES_IN_DESC + 1 |-> 0], MAX_PAGES_IN_DESC + 1),
      Desc(index, FALSE, MAX_PAGES_IN_DESC * SIZE_OF_U32,
           [k \in 1 .. MAX_PAGES_IN_DESC |-> 0], MAX_PAGES_IN_DESC - 1),
      Desc(index, FALSE, 0, << >>, 0) }
    \cup UNION { { Desc(index, FALSE, n * SIZE_OF_U32, t, n) : t \in PfnPayloads(n) } :
                 n \in {1, MAX_PAGES_IN_DESC} }

\* the deflate queue: the payload is never looked at
DeflateDescs(index) ==
    { Desc(index, w, SIZE_OF_U32, << 0 >>, 1) : w \in BOOLEAN }

\* (start_frame, block_length) pairs: one page, the whole region, an empty
\* block, a block that crosses the end of the region, a block outside it
Blocks ==
    { << 0, 1 >>, << 0, NumPages >>, << NumPages - 1, 0 >>,
      << NumPages - 1, 2 >>, << NumPages, 1 >> }

\* the blocks of a descriptor of n entries: any one block; with more
\* entries, a block inside or outside the region followed by the first page
BlockPayloads(n) ==
    IF n = 1 THEN { << b >> : b \in Blocks }
    ELSE { << b >> \o [k \in 1 .. n - 1 |-> << 0, 1 >>] :
             b \in { << 0, 1 >>, << NumPages, 1 >> } }

\* the chains the driver may put on the populate and depopulate queues
PopulateDescs(index) ==
    { Desc(index, TRUE, SIZE_OF_BLOCK_INFO, << << 0, 1 >> >>, 1),
      Desc(index, FALSE, SIZE_OF_BLOCK_INFO + 1, << << 0, 1 >>, << 0, 1 >> >>, 2),
      Desc(index, FALSE, (MAX_BLOCKS_IN_DESC + 1) * SIZE_OF_BLOCK_INFO,
           [k \in 1 .. MAX_BLOCKS_IN_DESC + 1 |-> << 0, 1 >>],
           MAX_BLOCKS_IN_DESC + 1),
      Desc(index, FALSE, MAX_BLOCKS_IN_DESC * SIZE_OF_BLOCK_INFO,
           [k \in 1 .. MAX_BLOCKS_IN_DESC |-> << 0, 1 >>], MAX_BLOCKS_IN_DESC - 1),
      Desc(index, FALSE, 0, << >>, 0) }
    \cup UNION { { Desc(index, FALSE, n * SIZE_OF_BLOCK_INFO, t, n) :
                     t \in BlockPayloads(n) } : n \in {1, MAX_BLOCKS_IN_DESC} }

\* the driver keeps up to MaxChains chains available on one page queue at
\* a time and none on the other; it makes a new chain available after it
\* took what the device returned, and waits while the device holds a chain
\* it popped earlier
CanPost(qi) ==
    /\ Len(queues[qi + 1].avail) < MaxChains
    /\ queues[2 - qi].avail = << >>
    /\ queues[1].used = << >>
    /\ queues[2].used = << >>
    /\ queues[1].held = {}
    /\ queues[2].held = {}
    /\ FreeIndices(queues[qi + 1]) # {}

GuestPostInflate ==
    /\ kind = "balloon"
    /\ CanPost(INFLATE_INDEX)
    /\ \E desc \in InflateDescs(NextIndex(queues[INFLATE_INDEX + 1])) :
         GuestPost(INFLATE_INDEX, desc)

GuestPostDeflate ==
    /\ kind = "balloon"
    /\ CanPost(DEFLATE_INDEX)
    /\ \E desc \in DeflateDescs(NextIndex(queues[DEFLATE_INDEX + 1])) :
         GuestPost(DEFLATE_INDEX, desc)

GuestPostPopulate ==
    /\ kind = "faascale_mem"
    /\ CanPost(POPULATE_INDEX)
    /\ \E desc \in PopulateDescs(NextIndex(queues[POPULATE_INDEX + 1])) :
         GuestPost(POPULATE_INDEX, desc)

GuestPostDepopulate ==
    /\ kind = "faascale_mem"
    /\ CanPost(DEPOPULATE_INDEX)
    /\ \E desc \in PopulateDescs(NextIndex(queues[DEPOPULATE_INDEX + 1])) :
         GuestPost(DEPOPULATE_INDEX, desc)

\* the guest writes to page p
GuestWriteMem(p) ==
    /\ mem[p] # "data"
    /\ mem' = [mem EXCEPT ![p] = "data"]
    /\ UNCHANGED << queues, queue_evts >>
    /\ GuestEffect

(***************************************************************************)
(* The page queues of both devices, statistics disabled.                   *)
(***************************************************************************)
InitQueues ==
    /\ \/ \E is_restored \in BOOLEAN : BalloonNew(0, TRUE, 0, is_restored)
       \/ \E is_restored \in BOOLEAN, pre \in BOOLEAN :
            FaascaleMemNew(0, is_restored, pre, pre)
    /\ mem = [p \in MappedFrames |-> "zero"]
    /\ last = Idle

NextQueues ==
    \/ \E evt_ok \in BOOLEAN : Activate(evt_ok)
    \/ ProcessInflateQueueEvent
    \/ ProcessDeflateQueueEvent
    \/ ProcessPopulateQueueEvent
    \/ ProcessDepopulateQueueEvent
    \/ GuestPostInflate
    \/ GuestPostDeflate
    \/ GuestPostPopulate
    \/ GuestPostDepopulate
    \/ \E qi \in {INFLATE_INDEX, DEFLATE_INDEX} : GuestCollectUsed(qi)
    \/ \E p \in MappedFrames : GuestWriteMem(p)

SpecQueues == InitQueues /\ [][NextQueues]_vars

(***************************************************************************)
(* The compaction pass of process_inflate_queue on its own: a buffer of    *)
(* frame numbers in any order, with repetitions, is compacted and every    *)
(* pair is passed to remove_range.                                         *)
(***************************************************************************)
PfnBuffers == UNION { [1 .. n -> 0 .. MaxPfn] : n \in 0 .. MaxPfnBuffer }

\* `let page_ranges = compact_page_frame_numbers(&mut pfn_buffer[..idx])`
\* followed by `for (page_frame_number, range_len) in page_ranges`
CompactAndRemove(v) ==
    /\ kind = "balloon"
    /\ Commit("compact_and_remove", v,
              remove_ranges(Device, compact_page_frame_numbers(v), 1))

InitCompact ==
    /\ \E is_restored \in BOOLEAN : BalloonNew(0, TRUE, 0, is_restored)
    /\ mem = [p \in MappedFrames |-> "zero"]
    /\ last = Idle

\* one buffer is compacted in each behaviour
NextCompact == \E v \in PfnBuffers : last = Idle /\ CompactAndRemove(v)

SpecCompact == InitCompact /\ [][NextCompact]_vars

(***************************************************************************)
(* The range operators on their own: remove_range and populate_range are   *)
(* applied to one block of guest memory, on a fresh or a restored device,  *)
(* with each pre-allocation flag on or off and with any one host call      *)
(* failing; the guest writes to its pages in between.                      *)
(***************************************************************************)
\* the host call that fails: none, mmap, madvise or the
\* KVM_PREALLOC_USER_MEMORY_REGION ioctl
RangeHostFails == HostFails \cup { "ioctl" }

RemoveRange(block, hf) ==
    /\ kind = "faascale_mem"
    /\ LET guest_addr == block[1] * PAGE_SIZE
           len == block[2] * PAGE_SIZE
           r == remove_range(mem, guest_addr, len, restored, hf)
       IN  Commit("remove_range", << block, hf >>,
                  [Device EXCEPT !.mem = r.mem, !.res = r.res,
                                 !.log = CallEvs(r.calls, guest_addr, len)])

PopulateRange(block, hf) ==
    /\ kind = "faascale_mem"
    /\ LET guest_addr == block[1] * PAGE_SIZE
           len == block[2] * PAGE_SIZE
           r == populate_range(mem, guest_addr, len, restored, pre_alloc_mem,
                               pre_tdp_fault, hf)
       IN  Commit("populate_range", << block, hf >>,
                  [Device EXCEPT !.mem = r.mem, !.res = r.res,
                                 !.log = CallEvs(r.calls, guest_addr, len)])

InitRange ==
    /\ \E is_restored \in BOOLEAN, pre_alloc \in BOOLEAN, pre_tdp \in BOOLEAN :
         FaascaleMemNew(0, is_restored, pre_alloc, pre_tdp)
    /\ mem = [p \in MappedFrames |-> "zero"]
    /\ last = Idle

NextRange ==
    \/ \E block \in Blocks, hf \in RangeHostFails : RemoveRange(block, hf)
    \/ \E block \in Blocks, hf \in RangeHostFails : PopulateRange(block, hf)
    \/ \E p \in MappedFrames : GuestWriteMem(p)

SpecRange == InitRange /\ [][NextRange]_vars

(***************************************************************************)
(* Page-count arithmetic.  The balloon is constructed with any of the      *)
(* amounts below (Balloon::new returns TooManyPagesRequested and no device *)
(* for an amount whose page count does not fit in u32), is activated and   *)
(* gets new target sizes.                                                  *)
(***************************************************************************)
\* pages_to_mib: amount_pages / MIB_TO_4K_PAGES on the little-endian bytes
pages_to_mib(pages) == << pages[2], pages[3], pages[4], 0 >>

\* Balloon::size_mb, which Balloon::config reports as amount_mib
size_mb == pages_to_mib(SubSeq(config_space, 1, SIZE_OF_U32))

\* u64::from(v) for a u32 given as 8 little-endian hex digits
u64_from(v) == v \o [k \in 1 .. 8 |-> 0]

\* `v << bits` on a u64 of 16 little-endian hex digits, bits a multiple of
\* 4: the digits that stay and the digits shifted out of the 64 bits
shl_u64(v, bits) ==
    [val |-> [k \in 1 .. 16 |-> IF k <= bits \div 4 THEN 0 ELSE v[k - bits \div 4]],
     lost |-> SubSeq(v, 16 - bits \div 4 + 1, 16)]

InitPages ==
    /\ \E amount_mib \in {0, 1, 255, 256, 65536, 16777215, 16777216, 2147483647} :
         /\ BalloonNew(amount_mib, TRUE, 0, FALSE)
         /\ last = [Idle EXCEPT !.op = "new", !.arg = amount_mib, !.res = "Ok"]
    /\ mem = [p \in MappedFrames |-> "zero"]

NextPages ==
    \/ \E evt_ok \in BOOLEAN : Activate(evt_ok)
    \/ \E amount_mib \in {0, 1, 255, 256, 65536, 16777215, 16777216, 2147483647} :
         UpdateSize(amount_mib)

SpecPages == InitPages /\ [][NextPages]_vars

(***************************************************************************)
(* latest_stats(), called by the control plane, with the guest posting     *)
(* statistics, the driver reporting actual_pages and the target size       *)
(* changing in between.                                                    *)
(***************************************************************************)
\* latest_stats() returning the snapshot as it is stored
get_latest_stats_stored(d) ==
    [d EXCEPT !.log = << Ev("latest_stats", 0,
                            IF d.stats_polling_interval_s > 0
                            THEN Some(d.latest_stats) ELSE None, "") >>]

\* Balloon::latest_stats / FaascaleMem::latest_stats: the balloon copies
\* the page counts of the config space into the snapshot before it returns
\* it; the returned value is logged
get_latest_stats(d) ==
    IF d.stats_polling_interval_s > 0
    THEN LET target == SubSeq(d.config_space, 1, SIZE_OF_U32)
             actual == SubSeq(d.config_space, SIZE_OF_U32 + 1, 2 * SIZE_OF_U32)
             s == IF kind = "balloon"
                  THEN [d.latest_stats EXCEPT !.target_pages = target,
                                              !.actual_pages = actual,
                                              !.target_mib = pages_to_mib(target),
                                              !.actual_mib = pages_to_mib(actual)]
                  ELSE d.latest_stats
         IN  [d EXCEPT !.latest_stats = s,
                       !.log = << Ev("latest_stats", 0, Some(s), "") >>]
    ELSE [d EXCEPT !.log = << Ev("latest_stats", 0, None, "") >>]

LatestStats == Commit("latest_stats", 0, get_latest_stats(Device))

NextLatest ==
    \/ Activate(TRUE)
    \/ UpdateSize(16)
    \/ WriteConfig(SIZE_OF_U32, << 0, 2, 0, 0 >>)
    \/ ProcessStatsQueueEvent
    \/ GuestPostStats
    \/ GuestCollectUsed(STATS_INDEX)
    \/ LatestStats

SpecLatest == Init /\ [][NextLatest]_vars

(***************************************************************************)
(* The device behind Arc<Mutex<..>>.  The event loop, the control-plane    *)
(* API and the vCPU thread (MMIO transport) each lock the mutex, work on   *)
(* the device through the guard and drop the guard.  The guest driver      *)
(* works on the rings in guest memory and takes no lock.                   *)
(***************************************************************************)
Threads == { "event_loop", "api", "vcpu" }

\* Mutex::lock that returns a guard whether or not the mutex is locked
mutex_lock_no_wait(m) == TRUE

\* Mutex::lock returns once the mutex is not locked
mutex_lock(m) == ~m

\* `faascale_mutex.lock().expect("Poisoned lock")`
Lock(t) ==
    /\ t \notin guard
    /\ mutex_lock(mutex)
    /\ mutex' = TRUE
    /\ guard' = guard \cup {t}
    /\ UNCHANGED << running, event_ops, kind, avail_features, acked_features, config_space, queues,
                    queue_evts, device_state, irq_status, restored, pre_alloc_mem,
                    pre_tdp_fault, stats_polling_interval_s, stats_timer,
                    stats_desc_index, latest_stats, mem, last >>

\* the guard goes out of scope
Unlock(t) ==
    /\ t \in guard
    /\ mutex' = FALSE
    /\ guard' = guard \ {t}
    /\ UNCHANGED << running, event_ops, kind, avail_features, acked_features, config_space, queues,
                    queue_evts, device_state, irq_status, restored, pre_alloc_mem,
                    pre_tdp_fault, stats_polling_interval_s, stats_timer,
                    stats_desc_index, latest_stats, mem, last >>

\* FaascaleMemBuilder::get_config: FaascaleMem::config() read through the
\* guard
GetConfig ==
    /\ kind = "faascale_mem"
    /\ Commit("get_config", 0,
              [Device EXCEPT !.log = << Ev("config", stats_polling_interval_s,
                                          << pre_alloc_mem, pre_tdp_fault >>, "") >>])

InitMutex ==
    /\ FaascaleMemNew(1, FALSE, FALSE, FALSE)
    /\ mem = [p \in MappedFrames |-> "zero"]
    /\ last = Idle

NextMutex ==
    \/ \E t \in Threads : Lock(t)
    \/ \E t \in Threads : Unlock(t)
    \/ "vcpu" \in guard /\ Activate(TRUE)
    \/ "event_loop" \in guard /\ ProcessStatsQueueEvent
    \/ "event_loop" \in guard /\ ProcessStatsTimerEvent
    \/ "api" \in guard /\ \E interval_s \in 1 .. MaxInterval :
                              UpdateStatsPollingInterval(interval_s)
    \/ "api" \in guard /\ GetConfig
    \/ GuestPostStats
    \/ GuestCollectUsed(STATS_INDEX)

SpecMutex == InitMutex /\ [][NextMutex]_vars

(***************************************************************************)
(* Every queue event handler of both devices, statistics enabled: a        *)
(* handler is called whether or not its notifier holds a kick, as the      *)
(* unit tests call it.  The driver works on one queue at a time: it posts  *)
(* on a page queue while the stats queue is untouched, and on the stats    *)
(* queue while the page queues are empty.                                  *)
(***************************************************************************)
InitHandlers ==
    /\ \/ BalloonNew(0, TRUE, 1, FALSE)
       \/ FaascaleMemNew(1, FALSE, FALSE, FALSE)
    /\ mem = [p \in MappedFrames |-> "zero"]
    /\ last = Idle

NextHandlers ==
    \/ Activate(TRUE)
    \/ ProcessInflateQueueEvent
    \/ ProcessDeflateQueueEvent
    \/ ProcessPopulateQueueEvent
    \/ ProcessDepopulateQueueEvent
    \/ ProcessStatsQueueEvent
    \/ queues[STATS_INDEX + 1] = NewQueue /\ GuestPostInflate
    \/ queues[STATS_INDEX + 1] = NewQueue /\ GuestPostDeflate
    \/ queues[STATS_INDEX + 1] = NewQueue /\ GuestPostPopulate
    \/ queues[STATS_INDEX + 1] = NewQueue /\ GuestPostDepopulate
    \/ queues[1].avail = << >> /\ queues[2].avail = << >> /\ GuestPostStats
    \/ \E qi \in {INFLATE_INDEX, DEFLATE_INDEX} : GuestCollectUsed(qi)

SpecHandlers == InitHandlers /\ [][NextHandlers]_vars

(***************************************************************************)
(* The mem-scale device as a subscriber of the event manager               *)
(* (event_handler.rs).  event_ops holds the sources the subscriber has     *)
(* registered: the notifiers of the populate, depopulate and stats queue,  *)
(* the stats timer and the activation event.  The event manager delivers   *)
(* events of registered sources only, with any event set, whether or not   *)
(* the source is readable (a handler that finds its notifier empty returns *)
(* the EventFd error).                                                     *)
(***************************************************************************)
RuntimeSources == { "populate", "depopulate", "stats", "timer" }

\* register_runtime_events with the stats sources registered whether or
\* not statistics are enabled
register_runtime_events_with_stats(ops, enabled) ==
    ops \cup { "populate", "depopulate", "stats", "timer" }

\* register_runtime_events: ops.add of the two page queue notifiers and,
\* `if self.stats_enabled()`, of the stats queue notifier and the timer
register_runtime_events(ops, enabled) ==
    (ops \cup { "populate", "depopulate" })
      \cup (IF enabled THEN { "stats", "timer" } ELSE {})

\* MutEventSubscriber::init that registers the runtime events whatever
\* the state of the device
init_runtime_always(ops, activated, enabled) ==
    register_runtime_events(ops, enabled)

\* MutEventSubscriber::init
init(ops, activated, enabled) ==
    IF activated
    THEN register_runtime_events(ops, enabled)
    ELSE ops \cup { "activate" }

\* the event manager takes the subscriber in and calls init, once
SubscriberInit ==
    /\ kind = "faascale_mem"
    /\ event_ops = {}
    /\ event_ops' = init(event_ops, is_activated, stats_enabled)
    /\ last' = [Idle EXCEPT !.op = "init", !.res = "Ok", !.pre = Pre]
    /\ UNCHANGED << running, mutex, guard, kind, avail_features, acked_features, config_space,
                    queues, queue_evts, device_state, irq_status, restored,
                    pre_alloc_mem, pre_tdp_fault, stats_polling_interval_s,
                    stats_timer, stats_desc_index, latest_stats, mem >>

\* process_activate_event: the runtime events are registered and the
\* activation event is removed
ProcessActivateEvent ==
    /\ event_ops' = register_runtime_events(event_ops, stats_enabled) \ { "activate" }
    /\ last' = [Idle EXCEPT !.op = "process_activate_event", !.res = "Ok", !.pre = Pre]
    /\ UNCHANGED << running, mutex, guard, kind, avail_features, acked_features, config_space,
                    queues, queue_evts, device_state, irq_status, restored,
                    pre_alloc_mem, pre_tdp_fault, stats_polling_interval_s,
                    stats_timer, stats_desc_index, latest_stats, mem >>

\* MutEventSubscriber::process(event, ops): an event whose set is not IN
\* and an event on a device that is not activated are logged and dropped;
\* otherwise `match source` runs the handler of the source.  The stats
\* queue handler indexes queues[FAASCALE_STATS_INDEX] once the notifier is
\* read, which panics on a device built with two queues.
Process(source, event_set) ==
    /\ kind = "faascale_mem"
    /\ source \in event_ops
    /\ IF event_set # "IN" \/ ~is_activated
       THEN Commit("process", << source, event_set >>, [Device EXCEPT !.res = "dropped"])
       ELSE CASE source = "populate" ->
                   \E hf \in HostFails :
                     Commit("process_populate_queue_event", POPULATE_INDEX,
                            process_populate_queue_event([Device EXCEPT !.host_fail = hf]))
              [] source = "depopulate" ->
                   \E hf \in HostFails :
                     Commit("process_depopulate_queue_event", DEPOPULATE_INDEX,
                            process_depopulate_queue_event([Device EXCEPT !.host_fail = hf]))
              [] source = "stats" ->
                   Commit("process_stats_queue_event", FAASCALE_STATS_INDEX,
                          IF queue_evts[FAASCALE_STATS_INDEX + 1]
                               /\ Len(queues) <= FAASCALE_STATS_INDEX
                          THEN [Device EXCEPT !.res = "panic"]
                          ELSE process_stats_queue_event(Device))
              [] source = "timer" ->
                   Commit("process_stats_timer_event", 0, trigger_stats_update(Device))
              [] source = "activate" -> ProcessActivateEvent

InitSubscriber ==
    /\ \E interval \in 0 .. 1 : FaascaleMemNew(interval, FALSE, FALSE, FALSE)
    /\ mem = [p \in MappedFrames |-> "zero"]
    /\ last = Idle

NextSubscriber ==
    \/ \E evt_ok \in BOOLEAN : Activate(evt_ok)
    \/ SubscriberInit
    \/ \E source \in RuntimeSources \cup { "activate" }, event_set \in { "IN", "OUT" } :
         Process(source, event_set)
    \/ is_activated /\ \E interval_s \in 0 .. MaxInterval :
                         UpdateStatsPollingInterval(interval_s)
    \/ GuestPostStats
    \/ GuestCollectUsed(FAASCALE_STATS_INDEX)

SpecSubscriber == InitSubscriber /\ [][NextSubscriber]_vars



(***************************************************************************)
(* process_inflate_queue step by step.  The handler works on the device    *)
(* in place; `running` holds its position and its locals: pfn_buffer (the  *)
(* first pfn_buffer_idx slots of the scratch buffer), valid_descs_found    *)
(* needs_interrupt and page_ranges (the pairs the loop over page_ranges    *)
(* has not taken yet).  The positions are "pop" (the test of the inner     *)
(* loop), "flush" (the compaction after the inner loop), "remove" (the     *)
(* test of the loop over page_ranges) and "return" (the code after the     *)
(* outer loop).  The driver posts only between drains: the content of the  *)
(* queue is fixed while a drain runs.                                      *)
(***************************************************************************)
\* one iteration of the inner loop that takes a descriptor whether or not
\* it fits in what is left of the scratch buffer
inflate_pop_step_no_fit_check(d) ==
    IF d.queues[INFLATE_INDEX + 1].avail = << >>
    THEN [pc |-> "flush", d |-> d]
    ELSE
      LET head == Head(d.queues[INFLATE_INDEX + 1].avail)
          len == head.len
          d1 == [d EXCEPT !.queues[INFLATE_INDEX + 1] = pop(@),
                          !.log = Append(@, Ev("pop", INFLATE_INDEX, head.index, "")),
                          !.valid_descs_found = TRUE]
          acked(x) == [x EXCEPT !.queues[INFLATE_INDEX + 1] = add_used(@, head.index),
                                !.log = Append(@, Ev("add_used", INFLATE_INDEX,
                                                     head.index, "")),
                                !.needs_interrupt = TRUE]
      IN  IF is_valid_desc(head, SIZE_OF_U32)
          THEN IF len > MAX_PAGES_IN_DESC * SIZE_OF_U32
               THEN [pc |-> "pop", d |-> d1]
               ELSE IF head.readable < Strides(len, SIZE_OF_U32)
               THEN [pc |-> "return",
                     d |-> [d1 EXCEPT !.pfn_buffer = @ \o SubSeq(head.data, 1, head.readable),
                                      !.res = "MalformedDescriptor"]]
               ELSE [pc |-> "pop", d |-> acked([d1 EXCEPT !.pfn_buffer = @ \o head.data])]
          ELSE [pc |-> "pop", d |-> acked(d1)]

\* one iteration of `while let Some(head) = queue.pop(mem)`: the working
\* state after it and the position that follows
inflate_pop_step(d) ==
    IF d.queues[INFLATE_INDEX + 1].avail = << >>
    THEN [pc |-> "flush", d |-> d]
    ELSE
      LET head == Head(d.queues[INFLATE_INDEX + 1].avail)
          len == head.len
          d1 == [d EXCEPT !.queues[INFLATE_INDEX + 1] = pop(@),
                          !.log = Append(@, Ev("pop", INFLATE_INDEX, head.index, "")),
                          !.valid_descs_found = TRUE]
          acked(x) == [x EXCEPT !.queues[INFLATE_INDEX + 1] = add_used(@, head.index),
                                !.log = Append(@, Ev("add_used", INFLATE_INDEX,
                                                     head.index, "")),
                                !.needs_interrupt = TRUE]
      IN  IF is_valid_desc(head, SIZE_OF_U32)
          THEN IF len > MAX_PAGES_IN_DESC * SIZE_OF_U32
               THEN [pc |-> "pop", d |-> d1]
               ELSE IF MAX_PAGE_COMPACT_BUFFER - Len(d1.pfn_buffer) < len \div SIZE_OF_U32
               THEN [pc |-> "flush",
                     d |-> [d1 EXCEPT !.queues[INFLATE_INDEX + 1] = undo_pop(@, head),
                                      !.log = Append(@, Ev("undo_pop", INFLATE_INDEX,
                                                           head.index, ""))]]
               ELSE IF head.readable < Strides(len, SIZE_OF_U32)
               THEN [pc |-> "return",
                     d |-> [d1 EXCEPT !.pfn_buffer = @ \o SubSeq(head.data, 1, head.readable),
                                      !.res = "MalformedDescriptor"]]
               ELSE [pc |-> "pop", d |-> acked([d1 EXCEPT !.pfn_buffer = @ \o head.data])]
          ELSE [pc |-> "pop", d |-> acked(d1)]

\* the compaction that leaves pfn_buffer_idx where it is
inflate_compact_keep_idx(d) ==
    [page_ranges |-> compact_page_frame_numbers(d.pfn_buffer), d |-> d]

\* the code after the inner loop: compact_page_frame_numbers on the
\* filled part of the buffer and `pfn_buffer_idx = 0`
inflate_compact(d) ==
    [page_ranges |-> compact_page_frame_numbers(d.pfn_buffer),
     d |-> [d EXCEPT !.pfn_buffer = << >>]]

\* the device and the locals the running call works on
Running ==
    [Device EXCEPT !.pfn_buffer = running.pfn_buffer,
                   !.needs_interrupt = running.needs_interrupt,
                   !.valid_descs_found = running.valid_descs_found,
                   !.log = running.log,
                   !.res = running.res]

\* the running call leaves the device and its locals as d, with
\* page_ranges left to remove, and goes to pc; when it returns, the record
\* of the drain is complete
Store(d, pc, page_ranges) ==
    /\ queues' = d.queues
    /\ queue_evts' = d.queue_evts
    /\ irq_status' = d.irq_status
    /\ mem' = d.mem
    /\ running' = IF pc = "idle" THEN NotRunning
                  ELSE [pc |-> pc, pfn_buffer |-> d.pfn_buffer,
                        page_ranges |-> page_ranges,
                        needs_interrupt |-> d.needs_interrupt,
                        valid_descs_found |-> d.valid_descs_found,
                        log |-> d.log, res |-> d.res,
                        pre |-> IF running.pc = "idle" THEN Pre ELSE running.pre]
    /\ last' = IF pc = "idle"
               THEN [op |-> "process_inflate_queue_event", arg |-> INFLATE_INDEX,
                     res |-> d.res, log |-> d.log, pre |-> running.pre, host_fail |-> ""]
               ELSE last
    /\ UNCHANGED << event_ops, mutex, guard, kind, avail_features, acked_features,
                    config_space, device_state, restored, pre_alloc_mem, pre_tdp_fault,
                    stats_polling_interval_s, stats_timer, stats_desc_index,
                    latest_stats >>

\* process_inflate_queue_event reads the kick and enters
\* process_inflate_queue: `let mut valid_descs_found = true`, the first
\* test of the outer loop and `valid_descs_found = false`
InflateEnter ==
    /\ kind = "balloon"
    /\ is_activated
    /\ running.pc = "idle"
    /\ queue_evts[INFLATE_INDEX + 1]
    /\ Store([Device EXCEPT !.queue_evts[INFLATE_INDEX + 1] = FALSE,
                            !.valid_descs_found = FALSE], "pop", << >>)

\* one iteration of the inner loop
InflatePop ==
    /\ running.pc = "pop"
    /\ \E s \in { inflate_pop_step(Running) } : Store(s.d, s.pc, << >>)

\* the compaction after the inner loop
InflateFlush ==
    /\ running.pc = "flush"
    /\ \E s \in { inflate_compact(Running) } : Store(s.d, "remove", s.page_ranges)

\* `for (page_frame_number, range_len) in page_ranges`: remove_range for
\* the next pair; after the last pair, the test of the outer loop
InflateRemove ==
    /\ running.pc = "remove"
    /\ \E d \in { Running } :
         IF running.page_ranges # << >>
         THEN Store(remove_ranges(d, << Head(running.page_ranges) >>, 1), "remove",
                    Tail(running.page_ranges))
         ELSE IF d.valid_descs_found
         THEN Store([d EXCEPT !.valid_descs_found = FALSE], "pop", << >>)
         ELSE Store(d, "return", << >>)

\* `if needs_interrupt { self.signal_used_queue()?; }  Ok(())`, or the
\* return of `?` from the inner loop
InflateReturn ==
    /\ running.pc = "return"
    /\ \E d \in { Running } :
         IF d.res = "Ok" /\ d.needs_interrupt
         THEN Store(signal_used_queue(d), "idle", << >>)
         ELSE Store(d, "idle", << >>)

InitInflate ==
    /\ \E is_restored \in BOOLEAN : BalloonNew(0, TRUE, 0, is_restored)
    /\ mem = [p \in MappedFrames |-> "zero"]
    /\ last = Idle

NextInflate ==
    \/ Activate(TRUE)
    \/ InflateEnter
    \/ InflatePop
    \/ InflateFlush
    \/ InflateRemove
    \/ InflateReturn
    \/ running.pc = "idle" /\ GuestPostInflate
    \/ running.pc = "idle" /\ GuestCollectUsed(INFLATE_INDEX)

SpecInflate == InitInflate /\ [][NextInflate]_vars

\* the thread of the event loop goes on with the handler it has entered
FairInflate ==
    /\ SpecInflate
    /\ WF_vars(InflatePop)
    /\ WF_vars(InflateFlush)
    /\ WF_vars(InflateRemove)
    /\ WF_vars(InflateReturn)

(***************************************************************************)
(* Reading the record of the last handler.                                 *)
(***************************************************************************)
\* the positions of the log that hold an effect of kind e
EvAt(e) == { k \in 1 .. Len(last.log) : last.log[k].e = e }

\* the positions of the log where index i of queue qi got effect e
EvOf(e, qi, i) ==
    { k \in EvAt(e) : last.log[k].a = qi /\ last.log[k].b = i }


(***************************************************************************)
(* Claims.                                                                 *)
(***************************************************************************)

\* C2 (as claimed): the device holds at most one stats descriptor; when a
\* stats descriptor arrives while another is pending, the pending one is
\* added to the used ring in that step and the new one becomes the pending
\* one; and every stats descriptor the device popped is returned: when a
\* handler is over, a popped descriptor is in the used ring or is the
\* pending one, which the next timer event returns.
C2_OnePendingAndAllReturned ==
    Len(queues) = NUM_QUEUES =>
      /\ Cardinality(queues[STATS_INDEX + 1].held) <= 1
      /\ ( /\ last.op = "process_stats_queue_event"
           /\ last.pre.stats_desc_index # None
           /\ EvAt("pop") # {} )
         => /\ EvOf("add_used", STATS_INDEX, last.pre.stats_desc_index[1]) # {}
            /\ LET k == CHOOSE k \in EvAt("pop") : \A j \in EvAt("pop") : j <= k
               IN  stats_desc_index = Some(last.log[k].b)
      /\ \A i \in queues[STATS_INDEX + 1].held : stats_desc_index = Some(i)

(***************************************************************************)
(* Reading the record of a queue drain.                                    *)
(***************************************************************************)
PageDrains ==
    { "process_inflate_queue_event", "process_deflate_queue_event",
      "process_populate_queue_event", "process_depopulate_queue_event" }

\* the last handler was a drain of a page queue whose notifier held a kick
PageDrained == last.op \in PageDrains /\ last.res # "EventFd"

\* the chains that were available on the drained queue before the drain
PreAvail == last.pre.queues[last.arg + 1].avail

\* the entry size of the drained queue
EntrySize == IF kind = "balloon" THEN SIZE_OF_U32 ELSE SIZE_OF_BLOCK_INFO

\* the effects of the range operators, in order
RangeEvs(log) ==
    SelectSeq(log, LAMBDA ev : ev.e \in {"remove_range", "populate_range",
                                         "mmap", "madvise", "memcpy", "ioctl"})

\* C1 (as claimed): in every drain of the inflate, deflate, populate and
\* depopulate queue, each chain the drain pops is added to the used ring
\* exactly once before the drain returns, whatever its flags, length or
\* payload.
C1_EveryPoppedChainUsedOnce ==
    PageDrained =>
      \A k \in EvAt("pop") :
        Cardinality(EvOf("add_used", last.arg, last.log[k].b)) = 1

\* C3 (as claimed): after a drain of the inflate queue in which no host
\* call failed, every mapped page whose frame number is listed in a valid
\* descriptor the drain took (device-readable, length a multiple of 4, at
\* most MAX_PAGES_IN_DESC frames) reads zero.
C3_ListedPagesReadZero ==
    ( /\ last.op = "process_inflate_queue_event"
      /\ last.res # "EventFd"
      /\ last.host_fail = "" )
    => \A k \in 1 .. Len(PreAvail) :
         LET head == PreAvail[k]
         IN  ( /\ EvOf("add_used", INFLATE_INDEX, head.index) # {}
               /\ ~head.is_write_only
               /\ head.len % SIZE_OF_U32 = 0
               /\ head.len <= MAX_PAGES_IN_DESC * SIZE_OF_U32 )
             => \A j \in 1 .. Len(head.data) :
                  head.data[j] \in MappedFrames => mem[head.data[j]] = "zero"

\* C4 (as claimed): a drain of any of the five queue processors that added
\* a descriptor to the used ring raises exactly one Vring interrupt, as its
\* last effect; a drain that added none raises no interrupt.
C4_OneInterruptPerDrain ==
    (PageDrained \/ last.op = "process_stats_queue_event") =>
      IF EvAt("add_used") # {}
      THEN /\ Cardinality(EvAt("irq")) = 1
           /\ last.log[Len(last.log)] = Ev("irq", 0, 0, "Vring")
      ELSE EvAt("irq") = {}

\* the device as it was before the last handler, without the chains of
\* the drained queue that are device-writable or of a misaligned length
PreDeviceWithoutInvalid ==
    [Device EXCEPT
       !.queues = [last.pre.queues EXCEPT ![last.arg + 1].avail =
                     SelectSeq(@, LAMBDA head : /\ ~head.is_write_only
                                                /\ head.len % EntrySize = 0)],
       !.mem = last.pre.mem,
       !.queue_evts = last.pre.queue_evts,
       !.irq_status = last.pre.irq_status,
       !.host_fail = last.host_fail]

\* the drain the last handler would have been without those chains
DrainWithoutInvalid ==
    IF last.op = "process_inflate_queue_event"
    THEN process_inflate_queue_event(PreDeviceWithoutInvalid)
    ELSE IF last.op = "process_populate_queue_event"
    THEN process_populate_queue_event(PreDeviceWithoutInvalid)
    ELSE process_depopulate_queue_event(PreDeviceWithoutInvalid)

\* C5: a descriptor of the inflate, populate or depopulate queue that is
\* device-writable or whose length is no multiple of the entry size is
\* added to the used ring right after it is popped; it changes nothing in
\* guest memory: the drain leaves guest memory as the same drain without
\* these descriptors would, after the same calls of the range operators;
\* and the drain does not panic.
C5_InvalidDescAckedNoEffect ==
    (PageDrained /\ last.op # "process_deflate_queue_event") =>
      /\ last.res \in {"Ok", "MalformedDescriptor"}
      /\ \A k \in EvAt("pop") :
           (\E j \in 1 .. Len(PreAvail) :
               /\ PreAvail[j].index = last.log[k].b
               /\ \/ PreAvail[j].is_write_only
                  \/ PreAvail[j].len % EntrySize # 0)
           => /\ k < Len(last.log)
              /\ last.log[k + 1] = Ev("add_used", last.arg, last.log[k].b, "")
              /\ Cardinality(EvOf("add_used", last.arg, last.log[k].b)) = 1
      /\ mem = DrainWithoutInvalid.mem
      /\ RangeEvs(last.log) = RangeEvs(DrainWithoutInvalid.log)
      /\ (\A j \in 1 .. Len(PreAvail) :
             PreAvail[j].is_write_only \/ PreAvail[j].len % EntrySize # 0)
           => mem = last.pre.mem /\ RangeEvs(last.log) = << >>

C5_Witness ==
    /\ last.op = "process_inflate_queue_event"
    /\ Len(PreAvail) = 2
    /\ PreAvail[1].is_write_only
    /\ PreAvail[2].len % SIZE_OF_U32 # 0
    /\ PreAvail[1].data[1] = 0
    /\ last.pre.mem[0] = "data"
    /\ mem[0] = "data"
    /\ Cardinality(EvAt("add_used")) = 2
    /\ last.res = "Ok"

\* C6 (as claimed): a drain that meets a protocol violation in one
\* descriptor (an entry that cannot be read, an unknown statistics tag)
\* does not panic and goes on: the descriptors that follow the offending
\* one are added to the used ring in the same drain.
C6_DrainGoesOnAfterViolation ==
    ( /\ PageDrained \/ last.op = "process_stats_queue_event"
      /\ last.res \in {"MalformedDescriptor", "MalformedPayload"} )
    => \A k \in 1 .. Len(PreAvail) :
         k > Cardinality(EvAt("pop")) - Cardinality(EvAt("undo_pop"))
           => EvOf("add_used", last.arg, PreAvail[k].index) # {}

\* C7: update_size on an Inactive device returns DeviceNotActive for every
\* amount_mib, leaves both config-space fields unchanged and raises no
\* interrupt.
C7_UpdateSizeInactive ==
    (last.op = "update_size" /\ last.pre.device_state = "Inactive") =>
      /\ last.res = "DeviceNotActive"
      /\ config_space = last.pre.config_space
      /\ irq_status = last.pre.irq_status
      /\ EvAt("irq") = {}

C7_Witness ==
    /\ last.op = "update_size"
    /\ last.pre.device_state = "Inactive"
    /\ last.arg = 16
    /\ last.res = "DeviceNotActive"

\* amount_mib * 256 fits in u32
FitsU32(amount_mib) == amount_mib <= 16777215

\* C8: update_size(amount_mib) on an activated device, when amount_mib * 256
\* fits in u32, succeeds, sets num_pages to amount_mib * 256 (read_config(0)
\* returns its little-endian bytes), raises one configuration-changed
\* interrupt and leaves actual_pages and guest memory unchanged.
C8_UpdateSizeActive ==
    ( /\ last.op = "update_size"
      /\ last.pre.device_state = "Activated"
      /\ FitsU32(last.arg) )
    => /\ last.res = "Ok"
       /\ LET b == read_config(config_space, 0, << 0, 0, 0, 0 >>)
          IN  /\ b[1] = 0
              /\ b[2] + 256 * b[3] + 65536 * b[4] = last.arg
       /\ read_config(config_space, 4, << 0, 0, 0, 0 >>)
            = read_config(last.pre.config_space, 4, << 0, 0, 0, 0 >>)
       /\ Cardinality(EvAt("irq")) = 1
       /\ \A k \in EvAt("irq") : last.log[k].r = "Config"
       /\ "Config" \in irq_status
       /\ mem = last.pre.mem
       /\ queues = last.pre.queues

C8_Witness ==
    /\ last.op = "update_size"
    /\ last.pre.device_state = "Activated"
    /\ last.arg = 16
    /\ last.res = "Ok"
    /\ read_config(config_space, 0, << 1, 1, 1, 1 >>) = << 0, 16, 0, 0 >>
    /\ read_config(last.pre.config_space, 0, << 1, 1, 1, 1 >>) # << 0, 16, 0, 0 >>

\* C9: update_stats_polling_interval(new) with new equal to the current
\* interval returns Ok and changes nothing; with exactly one of the current
\* and the new interval equal to 0 it returns StatisticsStateChange and
\* leaves the interval, the timer and the pending stats descriptor
\* unchanged (both devices).
C9_IntervalNoOpOrRejected ==
    last.op = "update_stats_polling_interval" =>
      /\ last.arg = last.pre.stats_polling_interval_s =>
           /\ last.res = "Ok"
           /\ Pre = last.pre
           /\ last.log = << >>
      /\ ((last.arg = 0) # (last.pre.stats_polling_interval_s = 0)) =>
           /\ last.res = "StatisticsStateChange"
           /\ stats_polling_interval_s = last.pre.stats_polling_interval_s
           /\ stats_timer = last.pre.stats_timer
           /\ stats_desc_index = last.pre.stats_desc_index

C9_Witness ==
    /\ last.op = "update_stats_polling_interval"
    /\ last.arg = 0
    /\ last.pre.stats_polling_interval_s > 0
    /\ last.pre.stats_desc_index # None
    /\ last.pre.stats_timer > 0
    /\ last.res = "StatisticsStateChange"

\* the last handler changed one nonzero interval into another on an
\* activated device
IntervalChanged ==
    /\ last.op = "update_stats_polling_interval"
    /\ last.pre.device_state = "Activated"
    /\ last.pre.stats_polling_interval_s > 0
    /\ last.arg > 0
    /\ last.arg # last.pre.stats_polling_interval_s

\* C10 (as claimed): on an activated device a change from one nonzero
\* interval to a different nonzero interval succeeds and triggers exactly
\* one interrupt.
C10_IntervalChangeOneIrq ==
    IntervalChanged => /\ last.res = "Ok"
                       /\ Cardinality(EvAt("irq")) = 1

\* C10 (amended): the change succeeds; it triggers exactly one (Vring)
\* interrupt when a stats descriptor was pending, and none otherwise.
C10_IntervalChangeIrqIffPending ==
    IntervalChanged =>
      /\ last.res = "Ok"
      /\ stats_polling_interval_s = last.arg
      /\ IF last.pre.stats_desc_index # None
         THEN /\ Cardinality(EvAt("irq")) = 1
              /\ \A k \in EvAt("irq") : last.log[k].r = "Vring"
         ELSE EvAt("irq") = {}

C10_Witness ==
    /\ IntervalChanged
    /\ last.pre.stats_desc_index # None
    /\ last.res = "Ok"
    /\ Cardinality(EvAt("irq")) = 1


(***************************************************************************)
(* C11.                                                                    *)
(***************************************************************************)
\* the last handler was a host configuration-update call that returned an
\* error
UpdateReturnedError ==
    /\ last.op \in {"update_size", "update_stats_polling_interval"}
    /\ last.res \notin {"Ok", "panic"}

\* C11: whenever update_size or update_stats_polling_interval returns an
\* error, num_pages and actual_pages, the polling interval, the pending
\* stats descriptor index and the timer period are what they were before
\* the call.
C11_ErrorLeavesStateUnchanged ==
    UpdateReturnedError =>
      /\ config_space = last.pre.config_space
      /\ stats_polling_interval_s = last.pre.stats_polling_interval_s
      /\ stats_desc_index = last.pre.stats_desc_index
      /\ stats_timer = last.pre.stats_timer

(***************************************************************************)
(* C12.                                                                    *)
(***************************************************************************)
TimerEventProcessed == last.op = "process_stats_timer_event"

\* C12: when the stats timer event is processed and a stats descriptor is
\* pending, that descriptor is added to the used ring, the pending index
\* becomes empty and a Vring interrupt is raised; when none is pending the
\* handler returns Ok, adds no used-ring entry, raises no interrupt and
\* changes no state.
C12_TimerEvent ==
    TimerEventProcessed =>
      /\ last.res = "Ok"
      /\ IF last.pre.stats_desc_index # None
         THEN /\ last.log = << Ev("add_used", STATS_INDEX,
                                  last.pre.stats_desc_index[1], ""),
                               Ev("irq", 0, 0, "Vring") >>
              /\ queues[STATS_INDEX + 1].used =
                   Append(last.pre.queues[STATS_INDEX + 1].used,
                          last.pre.stats_desc_index[1])
              /\ stats_desc_index = None
              /\ "Vring" \in irq_status
         ELSE /\ last.log = << >>
              /\ Pre = last.pre

C12_Witness ==
    /\ TimerEventProcessed
    /\ last.pre.stats_desc_index # None
    /\ stats_desc_index = None
    /\ Len(queues[STATS_INDEX + 1].used) = 1

(***************************************************************************)
(* C13.                                                                    *)
(***************************************************************************)
\* the statistics field of each tag 0..9, in the order of the tags
FieldOfTag ==
    << "swap_in", "swap_out", "major_faults", "minor_faults", "free_memory",
       "total_memory", "available_memory", "disk_caches",
       "hugetlb_allocations", "hugetlb_failures" >>

\* C13: update_with_stat with a tag in 0..9 sets exactly the field of that
\* tag to Some(val) and leaves every other field unchanged; with any other
\* tag it returns MalformedPayload and leaves the snapshot unchanged.
C13_UpdateWithStat ==
    last.op = "update_with_stat" =>
      LET tag == last.arg[1]
          val == last.arg[2]
      IN  IF tag \in 0 .. 9
          THEN /\ last.res = "Ok"
               /\ latest_stats[FieldOfTag[tag + 1]] = Some(val)
               /\ \A f \in DOMAIN latest_stats \ {FieldOfTag[tag + 1]} :
                    latest_stats[f] = last.pre.latest_stats[f]
          ELSE /\ last.res = "MalformedPayload"
               /\ latest_stats = last.pre.latest_stats

C13_Witness ==
    /\ last.op = "update_with_stat"
    /\ last.arg = << VIRTIO_S_CACHES, 1 >>
    /\ latest_stats.disk_caches = Some(1)
    /\ latest_stats.swap_in = Some(0)
    /\ last.pre.latest_stats.disk_caches = None

(***************************************************************************)
(* C14.                                                                    *)
(***************************************************************************)
\* C14: activate ends in one of two outcomes.  When the activation notifier
\* was signalled it returns Ok, the device is Activated and the timer is
\* armed if statistics are enabled (and only then); when signalling failed
\* it returns BadActivate, the device is Inactive and the timer has not
\* been armed.
C14_ActivateOutcomes ==
    last.op = "activate" =>
      IF last.arg
      THEN /\ last.res = "Ok"
           /\ device_state = "Activated"
           /\ stats_timer = stats_polling_interval_s
           /\ stats_enabled <=> EvAt("set_timer") # {}
      ELSE /\ last.res = "BadActivate"
           /\ device_state = "Inactive"
           /\ stats_timer = 0
           /\ EvAt("set_timer") = {}

C14_Witness ==
    /\ last.op = "activate"
    /\ ~last.arg
    /\ last.res = "BadActivate"
    /\ stats_enabled
    /\ device_state = "Inactive"
    /\ stats_timer = 0

(***************************************************************************)
(* C15.                                                                    *)
(***************************************************************************)
\* C15: in every reachable state the stats timer is armed if and only if
\* the device is activated and statistics are enabled, and an armed timer
\* has the period stats_polling_interval_s; on a successful interval change
\* the pending descriptor is acknowledged before the timer is re-armed with
\* the new period.
C15_TimerArmedIffActiveStats ==
    /\ stats_timer > 0 <=> (is_activated /\ stats_enabled)
    /\ stats_timer > 0 => stats_timer = stats_polling_interval_s
    /\ (IntervalChanged /\ last.res = "Ok") =>
         /\ Cardinality(EvAt("set_timer")) = 1
         /\ \A j \in EvAt("set_timer") :
              /\ last.log[j].a = last.arg
              /\ \A k \in EvAt("add_used") \cup EvAt("irq") : k < j
         /\ last.pre.stats_desc_index # None => EvAt("add_used") # {}

C15_Witness ==
    /\ IntervalChanged
    /\ last.res = "Ok"
    /\ restored
    /\ last.pre.stats_desc_index # None
    /\ stats_timer = last.arg
    /\ EvAt("add_used") # {}

(***************************************************************************)
(* C16.                                                                    *)
(***************************************************************************)
\* C16: restore(save(d)) of a mem-scale device d is a device with
\* restored = true whose polling interval, pending stats descriptor index,
\* statistics snapshot, num_pages and actual_pages, available and
\* acknowledged feature bits, interrupt status and activation state are
\* those of d, with 3 queues if the interval is nonzero and 2 otherwise.
C16_RestoreOfSave ==
    last.op = "restore" =>
      /\ restored
      /\ stats_polling_interval_s = last.pre.stats_polling_interval_s
      /\ stats_desc_index = last.pre.stats_desc_index
      /\ latest_stats = last.pre.latest_stats
      /\ SubSeq(config_space, 1, 4) = SubSeq(last.pre.config_space, 1, 4)
      /\ SubSeq(config_space, 5, 8) = SubSeq(last.pre.config_space, 5, 8)
      /\ avail_features = last.pre.avail_features
      /\ acked_features = last.pre.acked_features
      /\ irq_status = last.pre.irq_status
      /\ device_state = last.pre.device_state
      /\ Len(queues) = IF stats_polling_interval_s # 0 THEN 3 ELSE 2

C16_Witness ==
    /\ last.op = "restore"
    /\ restored
    /\ device_state = "Activated"
    /\ stats_desc_index # None
    /\ stats_desc_index = last.pre.stats_desc_index
    /\ latest_stats # DefaultStats
    /\ acked_features # {}
    /\ irq_status # {}
    /\ Len(queues) = 3

(***************************************************************************)
(* C18 and C19.                                                            *)
(***************************************************************************)
\* the byte range [offset, offset + len) lies inside the config space
InsideConfig(offset, len) == offset >= 0 /\ offset + len <= CONFIG_SPACE_SIZE

\* C18 (as claimed): write_config(offset, data), for every u64 offset and
\* every data length, does not panic; if offset + len <= 8 a following
\* read_config(0, 8 bytes) returns the old bytes with [offset, offset + len)
\* replaced by data, otherwise all 8 config-space bytes are unchanged.
C18_WriteConfig ==
    last.op = "write_config" =>
      LET offset == last.arg[1]
          data == last.arg[2]
          all == read_config(config_space, 0, [k \in 1 .. CONFIG_SPACE_SIZE |-> 255])
      IN  /\ last.res # "panic"
          /\ IF InsideConfig(offset, Len(data))
             THEN all = [i \in 1 .. CONFIG_SPACE_SIZE |->
                           IF i > offset /\ i <= offset + Len(data)
                           THEN data[i - offset]
                           ELSE last.pre.config_space[i]]
             ELSE all = last.pre.config_space

\* C19 (as claimed): read_config(offset, data) whose range is not entirely
\* inside the 8-byte config space leaves the buffer unchanged; a read
\* inside the space copies exactly the config bytes [offset, offset + len),
\* num_pages being bytes 0..4 and actual_pages bytes 4..8, little-endian.
C19_ReadConfig ==
    last.op = "read_config" =>
      LET offset == last.arg[1]
          data == last.arg[2]
          out == last.log[1].b
      IN  IF InsideConfig(offset, Len(data))
          THEN out = SubSeq(config_space, offset + 1, offset + Len(data))
          ELSE out = data

(***************************************************************************)
(* C17.                                                                    *)
(***************************************************************************)
\* C17: whether statistics are enabled is fixed at construction.  In every
\* reachable state (after queue events, timer events, configuration updates
\* and config-space writes) the polling interval is nonzero iff the device
\* has three queues iff the STATS_VQ feature bit is offered, and no step
\* changes whether the interval is nonzero, so it is nonzero iff it was at
\* construction.
C17_StatsEnabledFixed ==
    /\ [](/\ stats_enabled <=> Len(queues) = NUM_QUEUES
          /\ stats_enabled <=> VIRTIO_BALLOON_F_STATS_VQ \in avail_features)
    /\ [][(stats_polling_interval_s' > 0) <=> (stats_polling_interval_s > 0)]_vars

\* statistics enabled, the interval changed since construction, and the
\* transport has just written the config space
C17_Witness ==
    /\ last.op = "write_config"
    /\ stats_polling_interval_s = MaxInterval
    /\ config_space[SIZE_OF_U32 + 1] = 1
    /\ Len(queues) = NUM_QUEUES
    /\ is_activated

(***************************************************************************)
(* C20.                                                                    *)
(***************************************************************************)
\* the (start_frame, run_length) pairs passed to remove_range, in order
RangesRemoved(log) ==
    LET evs == SelectSeq(log, LAMBDA ev : ev.e = "remove_range")
    IN  [k \in 1 .. Len(evs) |-> << evs[k].a \div PAGE_SIZE, evs[k].b \div PAGE_SIZE >>]

\* how many times frame f occurs in the buffer v
TimesInBuffer(v, f) == Cardinality({k \in 1 .. Len(v) : v[k] = f})

\* how many of the ranges contain frame f
TimesInRanges(ranges, f) ==
    Cardinality({k \in 1 .. Len(ranges) :
                   ranges[k][1] <= f /\ f < ranges[k][1] + ranges[k][2]})

\* the buffer holds the N frames of one run of consecutive numbers, once
\* each, in some order
IsRun(v) ==
    /\ v # << >>
    /\ \E a \in 0 .. MaxPfn :
         {v[k] : k \in 1 .. Len(v)} = a .. a + Len(v) - 1

\* C20: for every buffer of frame numbers in any order, the ranges the
\* inflate drain passes to remove_range are the compactor's ranges: every
\* range is non-empty, the ranges expand to exactly the multiset of frames
\* of the buffer, and a buffer that is a run of N consecutive frames gives
\* exactly one range, of length N, starting at its smallest frame.
C20_CompactRoundTrip ==
    last.op = "compact_and_remove" =>
      LET v == last.arg
          ranges == RangesRemoved(last.log)
      IN  /\ \A k \in 1 .. Len(ranges) : ranges[k][2] >= 1
          /\ \A f \in 0 .. MaxPfn + MaxPfnBuffer :
               TimesInRanges(ranges, f) = TimesInBuffer(v, f)
          /\ IsRun(v) =>
               /\ Len(ranges) = 1
               /\ ranges[1][2] = Len(v)
               /\ \A k \in 1 .. Len(v) : ranges[1][1] <= v[k]

\* an unsorted buffer holding a run of three frames and a repeated frame
C20_Witness ==
    /\ last.op = "compact_and_remove"
    /\ last.arg = << 2, 0, 1, 1 >>
    /\ RangesRemoved(last.log) = << << 0, 2 >>, << 1, 2 >> >>

(***************************************************************************)
(* C21, C22 and C23: the range operators.                                  *)
(***************************************************************************)
RangeOpApplied == last.op \in {"remove_range", "populate_range"}

\* the host calls the operator made, in order
HostCalls == [k \in 1 .. Len(last.log) |-> last.log[k].e]

\* the start frame of the block lies in the mapped region, and so does
\* its end
StartMapped(block) == block[1] \in MappedFrames
EndMapped(block) == block[1] + block[2] <= NumPages

\* C21: remove_range and populate_range return RegionNotFound when no
\* mapped region contains the start address and MalformedRange when
\* start + length exceeds the end of the containing region; in both cases
\* no host call is made and guest memory is unchanged.
C21_RangeResolution ==
    RangeOpApplied =>
      LET block == last.arg[1]
      IN  /\ (last.res = "RegionNotFound") <=> ~StartMapped(block)
          /\ (last.res = "MalformedRange") <=>
               (StartMapped(block) /\ ~EndMapped(block))
          /\ last.res \in {"RegionNotFound", "MalformedRange"} =>
               /\ HostCalls = << >>
               /\ mem = last.pre.mem

\* populate_range of a block that starts outside the region, on a guest
\* that has written its page
C21_Witness ==
    /\ last.op = "populate_range"
    /\ last.arg[1] = << NumPages, 1 >>
    /\ last.res = "RegionNotFound"
    /\ \E p \in MappedFrames : mem[p] = "data"

\* C22: for a range that resolves, remove_range and populate_range make
\* the anonymous private mapping iff the device is restored; the mapping
\* is the first host call, before the decommit advisory or the populate
\* steps; if it fails the operation returns MmapFail, makes no other host
\* call and leaves guest memory as it was.
C22_OverlayIffRestored ==
    RangeOpApplied =>
      LET block == last.arg[1]
          hf == last.arg[2]
          resolved == StartMapped(block) /\ EndMapped(block)
          overlays == {k \in 1 .. Len(HostCalls) : HostCalls[k] = "mmap"}
          overlay_fails == hf = "mmap" \/ block[2] = 0
      IN  /\ overlays # {} <=> (restored /\ resolved)
          /\ overlays \subseteq {1}
          /\ (last.res = "MmapFail") <=> (restored /\ resolved /\ overlay_fails)
          /\ last.res = "MmapFail" =>
               /\ HostCalls = << "mmap" >>
               /\ mem = last.pre.mem

\* remove_range on a restored device: the mapping, then the advisory
C22_Witness ==
    /\ last.op = "remove_range"
    /\ restored
    /\ last.res = "Ok"
    /\ HostCalls = << "mmap", "madvise" >>
    /\ \E p \in MappedFrames : last.pre.mem[p] = "data" /\ mem[p] = "zero"

\* C23 (as claimed): populate_range returns an error whenever a sub-step
\* it performed (mapping overlay, eager populate, pre-fault request)
\* failed.
C23_PopulateSubStepFailure ==
    last.op = "populate_range" =>
      LET hf == last.arg[2]
      IN  (\E k \in 1 .. Len(HostCalls) : HostCalls[k] = hf) => last.res # "Ok"

(***************************************************************************)
(* C24: a failing range does not stop a drain.                             *)
(***************************************************************************)
\* the calls of remove_range and populate_range the drain made, in order
RangeCalls ==
    SelectSeq(last.log, LAMBDA ev : ev.e \in {"remove_range", "populate_range"})

HostResourceErrors ==
    { "RegionNotFound", "MalformedRange", "AddressTranslation", "MmapFail",
      "MadviseFail" }

\* the most entries a descriptor of the drained queue may carry
EntryLimit == IF kind = "balloon" THEN MAX_PAGES_IN_DESC ELSE MAX_BLOCKS_IN_DESC

\* head is device-readable, a whole number of entries long and within the limit
Accepted(head) ==
    /\ ~head.is_write_only
    /\ head.len % EntrySize = 0
    /\ head.len <= EntryLimit * EntrySize

\* every entry of every accepted chain can be read from guest memory
AllEntriesReadable ==
    \A k \in 1 .. Len(PreAvail) :
       Accepted(PreAvail[k]) => PreAvail[k].readable >= PreAvail[k].len \div EntrySize

RECURSIVE SumSeq(_)
SumSeq(s) == IF s = << >> THEN 0 ELSE Head(s) + SumSeq(Tail(s))

\* the entries listed by the accepted chains, and the entries the range
\* operators were called for: frames on the inflate queue, blocks on the
\* populate and depopulate queues
EntriesListed ==
    SumSeq([k \in 1 .. Len(PreAvail) |->
              IF Accepted(PreAvail[k]) THEN PreAvail[k].len \div EntrySize ELSE 0])
EntriesProcessed ==
    IF kind = "balloon"
    THEN SumSeq([k \in 1 .. Len(RangeCalls) |-> RangeCalls[k].b \div PAGE_SIZE])
    ELSE Len(RangeCalls)

FitsInPages(amount_mib) == amount_mib < 16777216

\* C25: Balloon::new and Balloon::update_size succeed only for an amount
\* whose page count fits in u32; otherwise update_size returns
\* TooManyPagesRequested and num_pages keeps its value; after a success
\* size_mb() (and so config().amount_mib) is the amount asked for; and a
\* u32 frame number or frame count widened to u64 and shifted left by the
\* PFN shift loses no bit.
C25_PageArithmetic ==
    /\ last.op \in {"new", "update_size"} /\ last.res = "Ok" =>
         /\ FitsInPages(last.arg)
         /\ size_mb = U32Bytes(last.arg)
         /\ SubSeq(config_space, 1, SIZE_OF_U32)[1] = 0
    /\ last.op = "update_size" /\ last.pre.device_state = "Activated" =>
         /\ (last.res = "TooManyPagesRequested") <=> ~FitsInPages(last.arg)
         /\ last.res = "TooManyPagesRequested" =>
              config_space = last.pre.config_space
    /\ \A v \in [1 .. 8 -> {0, 15}] :
         LET s == shl_u64(u64_from(v), VIRTIO_FAASCALE_MEM_PFN_SHIFT)
         IN  /\ \A k \in 1 .. Len(s.lost) : s.lost[k] = 0
             /\ SubSeq(s.val, 4, 11) = v

\* the largest amount that fits is stored, then a larger one is refused
C25_Witness ==
    /\ last.op = "update_size"
    /\ last.arg = 16777216
    /\ last.res = "TooManyPagesRequested"
    /\ size_mb = U32Bytes(16777215)
    /\ config_space = << 0, 255, 255, 255, 0, 0, 0, 0 >>

(***************************************************************************)
(* C26.                                                                    *)
(***************************************************************************)
\* the value of four little-endian bytes
U32Of(b) == b[1] + 256 * b[2] + 65536 * b[3] + 16777216 * b[4]

\* some chain the last stats drain popped carries an entry with this tag
EntryWithTag(l, tag) ==
    /\ l.op = "process_stats_queue_event"
    /\ \E k \in 1 .. Len(l.log), j \in 1 .. Len(l.pre.queues[STATS_INDEX + 1].avail) :
         LET head == l.pre.queues[STATS_INDEX + 1].avail[j]
         IN  /\ l.log[k] = Ev("pop", STATS_INDEX, head.index, "")
             /\ \E i \in 1 .. Len(head.data) : head.data[i][1] = tag

\* C26: latest_stats() returns None iff statistics are disabled; the
\* snapshot the balloon returns has target_pages and actual_pages equal to
\* num_pages and actual_pages of the config space at the call and
\* target_mib and actual_mib equal to them divided by 256; the returned
\* snapshot is the stored one; and a guest-supplied field is absent until
\* a drain of the stats queue pops a descriptor with an entry of its tag.
C26_LatestStats ==
    /\ [](/\ last.op = "latest_stats" =>
              LET ret == last.log[1].b
              IN  /\ ret = None <=> ~stats_enabled
                  /\ ret # None =>
                       /\ ret[1] = latest_stats
                       /\ \A f \in DOMAIN DefaultStats :
                            ret[1][f] = last.pre.latest_stats[f]
                       /\ kind = "balloon" =>
                            /\ U32Of(ret[1].target_pages)
                                 = U32Of(SubSeq(config_space, 1, 4))
                            /\ U32Of(ret[1].actual_pages)
                                 = U32Of(SubSeq(config_space, 5, 8))
                            /\ U32Of(ret[1].target_mib)
                                 = U32Of(SubSeq(config_space, 1, 4)) \div 256
                            /\ U32Of(ret[1].actual_mib)
                                 = U32Of(SubSeq(config_space, 5, 8)) \div 256
          /\ last.op = "none" /\ device_state = "Inactive" =>
               \A f \in DOMAIN DefaultStats : latest_stats[f] = None)
    /\ [][\A tag \in StatTags :
            ( /\ latest_stats[FieldOfTag[tag + 1]] = None
              /\ latest_stats'[FieldOfTag[tag + 1]] # None )
            => EntryWithTag(last', tag)]_vars

\* the balloon with a target of 16 MiB, 512 pages reported by the driver
\* and one statistic posted by the guest
C26_Witness ==
    /\ last.op = "latest_stats"
    /\ kind = "balloon"
    /\ last.log[1].b # None
    /\ latest_stats.target_mib = << 16, 0, 0, 0 >>
    /\ latest_stats.actual_mib = << 2, 0, 0, 0 >>
    /\ latest_stats.swap_in = Some(1)
    /\ latest_stats.hugetlb_failures = None

(***************************************************************************)
(* C27.                                                                    *)
(***************************************************************************)
EventLoopOps == { "process_stats_queue_event", "process_stats_timer_event" }
ApiOps == { "update_stats_polling_interval", "get_config" }

CallsCovering(f) ==
    { k \in 1 .. Len(RangeCalls) :
        /\ RangeCalls[k].a <= f * PAGE_SIZE
        /\ f * PAGE_SIZE < RangeCalls[k].a + RangeCalls[k].b }

\* how many times the accepted chains whose entries can all be read list
\* frame f
TimesListed(f) ==
    SumSeq([k \in 1 .. Len(PreAvail) |->
              IF Accepted(PreAvail[k])
                 /\ PreAvail[k].readable >= PreAvail[k].len \div EntrySize
              THEN TimesInBuffer(PreAvail[k].data, f) ELSE 0])

\* C28 (as claimed): one drain of the inflate queue passes every frame
\* listed in every valid descriptor that was available to remove_range,
\* also when the frames do not fit in the scratch buffer at once: the
\* descriptor that does not fit is pushed back with undo_pop once, popped
\* again and added to the used ring.
C28_InflateDrainReclaimsAll ==
    (PageDrained /\ last.op = "process_inflate_queue_event") =>
      /\ \A f \in Frames : Cardinality(CallsCovering(f)) = TimesListed(f)
      /\ \A k \in EvAt("undo_pop") :
           (\E j \in 1 .. Len(PreAvail) :
               /\ PreAvail[j].index = last.log[k].b
               /\ PreAvail[j].readable >= PreAvail[j].len \div EntrySize)
           =>
           /\ Cardinality(EvOf("undo_pop", INFLATE_INDEX, last.log[k].b)) = 1
           /\ Cardinality(EvOf("pop", INFLATE_INDEX, last.log[k].b)) = 2
           /\ \E j \in EvOf("add_used", INFLATE_INDEX, last.log[k].b) : j > k
           /\ \E j \in EvAt("remove_range"), i \in EvOf("pop", INFLATE_INDEX, last.log[k].b) :
                k < j /\ j < i

\* the same for drains whose descriptors can all be read
C28_WhenAllReadable ==
    (PageDrained /\ AllEntriesReadable) => C28_InflateDrainReclaimsAll

\* a descriptor that does not fit is pushed back, the batch is reclaimed,
\* the descriptor is popped again and reclaimed by the final pass
C28_UndoPopReached ==
    /\ last.op = "process_inflate_queue_event"
    /\ last.res = "Ok"
    /\ EvAt("undo_pop") # {}
    /\ Len(RangeCalls) = 2

(***************************************************************************)
(* C29.                                                                    *)
(***************************************************************************)
\* the chain of the drained queue with this index
PreHead(index) == CHOOSE h \in {PreAvail[j] : j \in 1 .. Len(PreAvail)} : h.index = index

RECURSIVE BlocksPassed(_, _)
\* the pairs of the chains popped (pops: their pop effects, in order) that
\* the drain has to pass to the range operator op: the pairs of each
\* accepted chain, in payload order, as far as they can be read
BlocksPassed(pops, op) ==
    IF pops = << >> THEN << >>
    ELSE LET head == PreHead(Head(pops).b)
             n == Min(head.readable, head.len \div SIZE_OF_BLOCK_INFO)
         IN  (IF Accepted(head)
              THEN [i \in 1 .. n |-> << op, head.data[i][1] * 4096, head.data[i][2] * 4096 >>]
              ELSE << >>)
               \o BlocksPassed(Tail(pops), op)

\* C29: a drain of the populate queue calls populate_range, a drain of the
\* depopulate queue remove_range, never the other; the calls are, in
\* order, one per (start_frame, block_length) pair of the accepted
\* descriptors the drain popped, in payload order, for the guest range
\* (start_frame * 4096, block_length * 4096), unmerged; a descriptor with
\* more than MAX_BLOCKS_IN_DESC pairs adds no call; and a drain without a
\* call leaves guest memory as it was.
C29_BlocksPassedInOrder ==
    ( /\ PageDrained
      /\ last.op \in {"process_populate_queue_event", "process_depopulate_queue_event"} )
    => LET op == IF last.op = "process_populate_queue_event"
                 THEN "populate_range" ELSE "remove_range"
           pops == SelectSeq(last.log, LAMBDA ev : ev.e = "pop")
       IN  /\ [k \in 1 .. Len(RangeCalls) |->
                 << RangeCalls[k].e, RangeCalls[k].a, RangeCalls[k].b >>]
                = BlocksPassed(pops, op)
           /\ \A k \in 1 .. Len(pops) : pops[k].a = last.arg
           /\ RangeCalls = << >> => mem = last.pre.mem

\* the depopulate queue held a descriptor with too many pairs and one with
\* two pairs, the first outside the region: two calls of remove_range
C29_Witness ==
    /\ last.op = "process_depopulate_queue_event"
    /\ Len(PreAvail) = 2
    /\ PreAvail[1].len > MAX_BLOCKS_IN_DESC * SIZE_OF_BLOCK_INFO
    /\ Len(RangeCalls) = 2
    /\ RangeCalls[1] = Ev("remove_range", NumPages * PAGE_SIZE, PAGE_SIZE, "RegionNotFound")
    /\ RangeCalls[2] = Ev("remove_range", 0, PAGE_SIZE, "Ok")

(***************************************************************************)
(* C30.                                                                    *)
(***************************************************************************)
\* C30: a drain of the balloon deflate queue makes no host memory call
\* and leaves guest memory, the config space, the statistics snapshot, the
\* pending stats descriptor and the inflate queue as they were; it pops
\* every available deflate descriptor, whatever its flags and payload, and
\* adds it to the used ring right away, and does nothing else but raise
\* the queue interrupt.
C30_DeflateDrainFrame ==
    (PageDrained /\ last.op = "process_deflate_queue_event") =>
      /\ RangeEvs(last.log) = << >>
      /\ mem = last.pre.mem
      /\ config_space = last.pre.config_space
      /\ latest_stats = last.pre.latest_stats
      /\ stats_desc_index = last.pre.stats_desc_index
      /\ queues[INFLATE_INDEX + 1] = last.pre.queues[INFLATE_INDEX + 1]
      /\ queues[DEFLATE_INDEX + 1].avail = << >>
      /\ queues[DEFLATE_INDEX + 1].used
           = last.pre.queues[DEFLATE_INDEX + 1].used
               \o [k \in 1 .. Len(PreAvail) |-> PreAvail[k].index]
      /\ \A k \in 1 .. Len(PreAvail) :
           /\ last.log[2 * k - 1] = Ev("pop", DEFLATE_INDEX, PreAvail[k].index, "")
           /\ last.log[2 * k] = Ev("add_used", DEFLATE_INDEX, PreAvail[k].index, "")
      /\ \A k \in 2 * Len(PreAvail) + 1 .. Len(last.log) : last.log[k].e = "irq"

\* two deflate descriptors, one of them device-readable, are returned while
\* the page their payload names keeps the data of the guest
C30_Witness ==
    /\ last.op = "process_deflate_queue_event"
    /\ last.res = "Ok"
    /\ Len(PreAvail) = 2
    /\ \E k \in 1 .. 2 : ~PreAvail[k].is_write_only
    /\ mem[0] = "data"
    /\ Len(queues[DEFLATE_INDEX + 1].used) = 2

(***************************************************************************)
(* C31.                                                                    *)
(***************************************************************************)
QueueEventOps == PageDrains \cup { "process_stats_queue_event" }

\* C31: a queue event handler (inflate, deflate, populate, depopulate or
\* stats) called while its notifier holds no kick returns the EventFd error
\* and has no effect: no descriptor is popped, and the queues with their
\* used rings, guest memory and the statistics snapshot are as before,
\* whatever is available on the queue.
C31_NoKickNoEffect ==
    (last.op \in QueueEventOps /\ ~last.pre.queue_evts[last.arg + 1]) =>
      /\ last.res = "EventFd"
      /\ last.log = << >>
      /\ queues = last.pre.queues
      /\ mem = last.pre.mem
      /\ latest_stats = last.pre.latest_stats
      /\ stats_desc_index = last.pre.stats_desc_index

\* the stats handler is called without a kick while a descriptor is
\* available on the stats queue
C31_Witness ==
    /\ last.op = "process_stats_queue_event"
    /\ ~last.pre.queue_evts[STATS_INDEX + 1]
    /\ last.res = "EventFd"
    /\ queues[STATS_INDEX + 1].avail # << >>

(***************************************************************************)
(* C32.                                                                    *)
(***************************************************************************)
\* the handlers process() dispatches on a runtime source
RuntimeHandlerOps ==
    { "process_populate_queue_event", "process_depopulate_queue_event",
      "process_stats_queue_event", "process_stats_timer_event" }

\* the fields of the device are what they were before the last handler
DeviceAsBefore ==
    /\ queues = last.pre.queues
    /\ config_space = last.pre.config_space
    /\ device_state = last.pre.device_state
    /\ irq_status = last.pre.irq_status
    /\ stats_polling_interval_s = last.pre.stats_polling_interval_s
    /\ stats_timer = last.pre.stats_timer
    /\ stats_desc_index = last.pre.stats_desc_index
    /\ latest_stats = last.pre.latest_stats
    /\ mem = last.pre.mem
    /\ queue_evts = last.pre.queue_evts

\* C32: on the mem-scale device no queue processor and no stats timer
\* handler runs while the device is Inactive.  process() drops an event
\* exactly when the device is not activated or the event set is not IN, and
\* a dropped event changes neither the device nor the registered sources;
\* a runtime source is registered only on an activated device, and only by
\* init or by the handler of the activation event.
C32_NoHandlerWhileInactive ==
    /\ [] ( /\ last.op \in RuntimeHandlerOps => last.pre.device_state = "Activated"
            /\ last.op = "process_activate_event" => last.pre.device_state = "Activated"
            /\ last.op = "process" =>
                  /\ last.arg[2] # "IN" \/ last.pre.device_state # "Activated"
                  /\ DeviceAsBefore
            /\ event_ops \cap RuntimeSources # {} => is_activated )
    /\ [][ /\ last'.op = "process" => event_ops' = event_ops
           /\ event_ops' \cap RuntimeSources # event_ops \cap RuntimeSources =>
                 /\ last'.op \in { "init", "process_activate_event" }
                 /\ is_activated ]_vars

\* the activation event is delivered, with the event set IN, to a device
\* that is not activated, and is dropped
C32_Witness ==
    /\ last.op = "process"
    /\ last.arg = << "activate", "IN" >>
    /\ last.res = "dropped"
    /\ ~is_activated
    /\ event_ops = { "activate" }

(***************************************************************************)
(* C33.                                                                    *)
(***************************************************************************)
\* C33 (as claimed): whenever the pending stats descriptor index holds i,
\* descriptor i was popped from the stats queue and is not yet in the used
\* ring; and a handler adds a stats descriptor to the used ring only if the
\* device holds it (it was held before the handler or popped by it), and
\* only once.
C33_PendingIsHeld ==
    Len(queues) = NUM_QUEUES =>
      /\ stats_desc_index # None =>
            stats_desc_index[1] \in queues[STATS_INDEX + 1].held
      /\ \A k \in EvAt("add_used") :
            last.log[k].a = STATS_INDEX =>
              /\ \/ last.log[k].b \in last.pre.queues[STATS_INDEX + 1].held
                 \/ \E j \in EvOf("pop", STATS_INDEX, last.log[k].b) : j < k
              /\ \A j \in EvOf("add_used", STATS_INDEX, last.log[k].b) : j = k

(***************************************************************************)
(* C34.                                                                    *)
(***************************************************************************)
\* how many times the accepted chains the drain added to the used ring
\* list frame f
TimesListedByAcked(f) ==
    SumSeq([k \in 1 .. Len(PreAvail) |->
              IF Accepted(PreAvail[k])
                 /\ EvOf("add_used", INFLATE_INDEX, PreAvail[k].index) # {}
              THEN TimesInBuffer(PreAvail[k].data, f) ELSE 0])

\* C34 (as claimed): when a drain of the inflate queue returns, with Ok or
\* with an error, every frame number of every descriptor the drain added
\* to the used ring has been passed to remove_range.
C34_AckedFramesReclaimed ==
    (PageDrained /\ last.op = "process_inflate_queue_event") =>
      \A f \in Frames : Cardinality(CallsCovering(f)) >= TimesListedByAcked(f)

\* the same for the drains that return Ok
C34_WhenDrainReturnsOk ==
    (PageDrained /\ last.res = "Ok") => C34_AckedFramesReclaimed

(***************************************************************************)
(* C35.                                                                    *)
(***************************************************************************)
\* C35 (as claimed): update_stats_polling_interval never panics: for every
\* current and new interval, on a device that is activated or not, it
\* returns Ok or one of its errors.
C35_IntervalUpdateNeverPanics ==
    last.op = "update_stats_polling_interval" =>
      last.res \in { "Ok", "StatisticsStateChange", "InterruptError" }

\* the same for a device that is activated
C35_WhenActivated ==
    last.pre.device_state = "Activated" => C35_IntervalUpdateNeverPanics

(***************************************************************************)
(* C36.                                                                    *)
(***************************************************************************)
\* the step from the current state pushes a descriptor back with undo_pop
UndoPopStep ==
    /\ running.pc = "pop"
    /\ Len(running'.log) > Len(running.log)
    /\ running'.log[Len(running'.log)].e = "undo_pop"

\* C36: a call of process_inflate_queue on a queue whose content the
\* driver does not change meanwhile returns.  A descriptor is pushed back
\* only when the scratch buffer holds frames; the compaction pass that
\* follows empties the buffer, so no descriptor is pushed back twice in a
\* drain; and the pass of the outer loop in which no descriptor was popped
\* is the last one.
C36_InflateDrainTerminates ==
    /\ (running.pc # "idle") ~> (running.pc = "idle")
    /\ [] (\A i \in 0 .. MaxDesc - 1 :
             Cardinality({ k \in 1 .. Len(running.log) :
                            running.log[k] = Ev("undo_pop", INFLATE_INDEX, i, "") }) <= 1)
    /\ [][ /\ UndoPopStep => running.pfn_buffer # << >>
           /\ running.pc = "flush" => running'.pfn_buffer = << >>
           /\ ( /\ running.pc = "remove"
                /\ running.page_ranges = << >>
                /\ ~running.valid_descs_found ) => running'.pc = "return" ]_vars

\* a drain that pushed a descriptor back has returned Ok
C36_Witness ==
    /\ running.pc = "idle"
    /\ last.op = "process_inflate_queue_event"
    /\ last.res = "Ok"
    /\ EvAt("undo_pop") # {}
    /\ queues[INFLATE_INDEX + 1].avail = << >>

\* the drain done step by step leaves the device and the record of the
\* drain as process_inflate_queue_event does in one step
C36_StepsAgreeWithDrain ==
    (running.pc = "idle" /\ last.op = "process_inflate_queue_event") =>
      LET w == process_inflate_queue_event(
                 [Device EXCEPT !.queues = last.pre.queues,
                                !.queue_evts = last.pre.queue_evts,
                                !.irq_status = last.pre.irq_status,
                                !.mem = last.pre.mem])
      IN  /\ w.queues = queues
          /\ w.queue_evts = queue_evts
          /\ w.irq_status = irq_status
          /\ w.mem = mem
          /\ w.log = last.log
          /\ w.res = last.res

(***************************************************************************)
(* C37.                                                                    *)
(***************************************************************************)
\* the step from the current state starts a batch: it reaches the test of
\* the inner loop from the entry of the call or from the compaction pass
BatchStartStep ==
    /\ running.pc \in { "idle", "remove" }
    /\ running'.pc = "pop"

\* C37: during a drain of the inflate queue the write index of the scratch
\* buffer stays within 0 .. MAX_PAGE_COMPACT_BUFFER, the index is 0 when a
\* batch starts, and no frame of an earlier batch is reclaimed again: a
\* returned drain has called remove_range on a frame at most as many times
\* as the descriptors it added to the used ring list the frame.
C37_ScratchIndexInBounds ==
    /\ [](Len(running.pfn_buffer) \in 0 .. MAX_PAGE_COMPACT_BUFFER)
    /\ []((running.pc = "idle" /\ last.op = "process_inflate_queue_event") =>
            \A f \in Frames : Cardinality(CallsCovering(f)) <= TimesListedByAcked(f))
    /\ [][BatchStartStep => running'.pfn_buffer = << >>]_vars

\* a drain is in its second batch: it pushed a descriptor back, reclaimed
\* the frames of the first batch, and filled the buffer again from index 0
C37_Witness ==
    /\ running.pc = "flush"
    /\ \E k \in 1 .. Len(running.log) : running.log[k].e = "undo_pop"
    /\ \E k \in 1 .. Len(running.log) : running.log[k].e = "remove_range"
    /\ running.pfn_buffer # << >>

(***************************************************************************)
(* C38.                                                                    *)
(***************************************************************************)
\* FaascaleMem::config: the configuration the device reports
config ==
    [stats_polling_interval_s |-> stats_polling_interval_s,
     pre_alloc_mem |-> pre_alloc_mem,
     pre_tdp_fault |-> pre_tdp_fault]

\* C38 (as claimed): the device restored from the snapshot of a mem-scale
\* device reports the same config() as the device that was saved:
\* stats_polling_interval_s, pre_alloc_mem and pre_tdp_fault are preserved.
C38_RestoreKeepsConfig ==
    [][last'.op = "restore" => config' = config]_vars

\* the part of config() the snapshot carries is preserved
C38_RestoreKeepsInterval ==
    [][last'.op = "restore" =>
         config'.stats_polling_interval_s = config.stats_polling_interval_s]_vars

(***************************************************************************)
(* C39.                                                                    *)
(***************************************************************************)
\* C39 (as claimed): populate_range changes guest memory only inside the
\* requested range: every page outside [guest_address, guest_address +
\* range_len) reads after the call as before it, for every range length,
\* a length of 0 and a range that ends at the end of its region included.
C39_PopulateWritesInsideRange ==
    last.op = "populate_range" =>
      \A p \in MappedFrames :
         ~(last.arg[1][1] <= p /\ p < last.arg[1][1] + last.arg[1][2]) =>
           mem[p] = last.pre.mem[p]

\* the same for the ranges that are not empty
C39_WhenRangeNotEmpty ==
    (last.op = "populate_range" /\ last.arg[1][2] > 0) =>
      C39_PopulateWritesInsideRange

(***************************************************************************)
(* C40.                                                                    *)
(***************************************************************************)
\* the handlers of the statistics sources
StatsHandlerOps == { "process_stats_queue_event", "process_stats_timer_event" }

\* C40: once the runtime events of the mem-scale device are registered,
\* the stats queue notifier and the stats timer are registered iff
\* statistics are enabled; the stats queue handler and the stats timer
\* handler run only on a device with statistics enabled, which has its
\* three queues, and never panic on a missing stats queue.
C40_StatsHandlersOnlyWithStats ==
    /\ "populate" \in event_ops =>
          /\ "stats" \in event_ops <=> stats_enabled
          /\ "timer" \in event_ops <=> stats_enabled
    /\ ~stats_enabled => event_ops \cap { "stats", "timer" } = {}
    /\ (kind = "faascale_mem" /\ last.op \in StatsHandlerOps) =>
          /\ last.pre.stats_polling_interval_s > 0
          /\ Len(last.pre.queues) = NUM_QUEUES
          /\ last.res # "panic"

\* the event loop ran the stats queue handler, which took a descriptor
\* from the stats queue
C40_Witness ==
    /\ { "stats", "timer" } \subseteq event_ops
    /\ last.op = "process_stats_queue_event"
    /\ last.res = "Ok"
    /\ EvOf("pop", FAASCALE_STATS_INDEX, 0) # {}

\* the runtime events of a device with statistics disabled are registered
C40_RegisteredWithoutStats ==
    "populate" \in event_ops /\ ~stats_enabled

====
